---- MODULE Spec2Model ----
(***************************************************************************)
(* A model of STREM (cps-atlas/strem): the matching drivers of             *)
(* src/controller.rs, the horizon and regex construction of                *)
(* src/matcher.rs, and the spatial monitors of src/monitor.                *)
(***************************************************************************)
EXTENDS Integers, Sequences, FiniteSets, TLC

(***************************************************************************)
(* Bounds of the model.                                                    *)
(***************************************************************************)
\* the largest number of frames in one input stream
MaxFrames == 3
\* the largest number of JSON values one input stream is cut into
MaxValues == 2
\* the largest configured limit (-m/--max-count)
MaxLimit == 1
\* the number of callback invocations after which a run is no longer followed
MaxEmit == 4

\* Option<T>: None, or Some(x) with the value x[1]
None == <<>>
Some(x) == <<x>>

(***************************************************************************)
(* The symbolic AST (matcher.rs works on Node<SymbolicFormula>): operands  *)
(* are the symbols of the symbol table, operators are the regex operators. *)
(***************************************************************************)
Operand(c) == [node |-> "Operand", symbol |-> c]
KleeneStar(x) == [node |-> "UnaryExpr", op |-> "KleeneStar", child |-> x]
Exactly(x, n) == [node |-> "UnaryExpr", op |-> "Exactly", size |-> n, child |-> x]
AtLeast(x, n) == [node |-> "UnaryExpr", op |-> "AtLeast", min |-> n, child |-> x]
Between(x, n, m) ==
  [node |-> "UnaryExpr", op |-> "Between", min |-> n, max |-> m, child |-> x]
Concatenation(l, r) ==
  [node |-> "BinaryExpr", op |-> "Concatenation", lhs |-> l, rhs |-> r]
Alternation(l, r) ==
  [node |-> "BinaryExpr", op |-> "Alternation", lhs |-> l, rhs |-> r]

\* the symbol table, in insertion order
SymbolTable == <<"a", "b">>

\* the patterns the drivers are run on, as symbolic ASTs:
\*   [:a:]   [:a:][:b:]   [:a:]*   [:a:]{1,2}   [:a:]{2}
\*   [:b:]|([:a:][:b:])[:b:]   [:a:]{1,}   [:a:]{0}
Patterns ==
  { Operand("a"),
    Concatenation(Operand("a"), Operand("b")),
    KleeneStar(Operand("a")),
    Between(Operand("a"), 1, 2),
    Exactly(Operand("a"), 2),
    Alternation(Operand("b"),
                Concatenation(Concatenation(Operand("a"), Operand("b")),
                              Operand("b"))),
    AtLeast(Operand("a"), 1),
    Exactly(Operand("a"), 0) }

(***************************************************************************)
(* matcher.rs: regexify / regexit.  The pattern string is a sequence of    *)
(* characters; a count is written in decimal (format!("{}", size)).        *)
(***************************************************************************)
Digits == <<"0", "1", "2", "3", "4", "5", "6", "7", "8", "9">>
FormatNum(n) == Digits[n + 1]
ParseNum(s) == CHOOSE n \in 0..9 : Digits[n + 1] = s

RECURSIVE regexit(_)
regexit(node) ==
  IF node.node = "Operand" THEN <<node.symbol>>
  ELSE IF node.node = "UnaryExpr" THEN
    LET child == regexit(node.child) IN
    CASE node.op = "KleeneStar" -> <<"(">> \o child \o <<"*", ")">>
      [] node.op = "Exactly" ->
           <<"(">> \o child \o <<"{", FormatNum(node.size), "}", ")">>
      [] node.op = "AtLeast" ->
           <<"(">> \o child \o <<"{", FormatNum(node.min), ",", "}", ")">>
      [] node.op = "Between" ->
           <<"(">> \o child
             \o <<"{", FormatNum(node.min), ",", FormatNum(node.max), "}", ")">>
      [] OTHER -> <<>>
  ELSE
    LET lhs == regexit(node.lhs)
        rhs == regexit(node.rhs) IN
    CASE node.op = "Concatenation" -> <<"(">> \o lhs \o rhs \o <<")">>
      [] node.op = "Alternation" -> <<"(">> \o lhs \o <<"|">> \o rhs \o <<")">>
      [] OTHER -> <<>>

\* ast.root is an Option<Node>; no root gives String::new()
regexify(root) == IF root # None THEN regexit(root[1]) ELSE <<>>

(***************************************************************************)
(* matcher.rs: horizon / horizonit.                                        *)
(***************************************************************************)
Max(x, y) == IF x >= y THEN x ELSE y

RECURSIVE horizonit(_)
horizonit(node) ==
  IF node.node = "Operand" THEN Some(1)
  ELSE IF node.node = "UnaryExpr" THEN
    LET ret == horizonit(node.child) IN
    CASE node.op = "KleeneStar" -> None
      [] node.op = "Exactly" ->
           IF ret # None THEN Some(ret[1] * node.size) ELSE None
      [] node.op = "AtLeast" -> None
      [] node.op = "Between" ->
           IF ret # None THEN Some(ret[1] * node.max) ELSE None
      [] OTHER -> None
  ELSE
    LET lhs == horizonit(node.lhs)
        rhs == horizonit(node.rhs) IN
    CASE node.op = "Concatenation" ->
           IF lhs # None /\ rhs # None THEN Some(lhs[1] + rhs[1]) ELSE None
      [] node.op = "Alternation" ->
           IF lhs # None /\ rhs # None THEN Some(Max(lhs[1], rhs[1])) ELSE None
      [] OTHER -> None

\* ast.root is an Option<Node>
horizon(root) == IF root # None THEN horizonit(root[1]) ELSE None

(***************************************************************************)
(* The regex engine (matcher/automata, matcher/offline, matcher/online):   *)
(* membership of a word in the language of the pattern string written by   *)
(* regexit, read off the string itself.                                    *)
(***************************************************************************)
\* the position of the ")" closing a group, scanning from j at depth d
RECURSIVE CloseOf(_, _, _)
CloseOf(re, j, d) ==
  IF re[j] = "(" THEN CloseOf(re, j + 1, d + 1)
  ELSE IF re[j] = ")" THEN (IF d = 1 THEN j ELSE CloseOf(re, j + 1, d - 1))
  ELSE CloseOf(re, j + 1, d)

\* the last position of the element (a symbol or a group) that starts at i
ElemEnd(re, i) == IF re[i] = "(" THEN CloseOf(re, i + 1, 1) ELSE i

RECURSIVE ReMatch(_, _, _, _)
RECURSIVE ReRepeat(_, _, _, _, _, _)
\* w is made of k words of the element re[i..j], min <= k <= max
ReRepeat(re, i, j, w, min, max) ==
  \/ min = 0 /\ w = <<>>
  \/ /\ max > 0
     /\ \E k \in 0..Len(w) :
          /\ ReMatch(re, i, j, SubSeq(w, 1, k))
          /\ ReRepeat(re, i, j, SubSeq(w, k + 1, Len(w)),
                      IF min > 0 THEN min - 1 ELSE 0, max - 1)

\* w is a word of the language of re[lo..hi]
ReMatch(re, lo, hi, w) ==
  IF lo > hi THEN w = <<>>
  ELSE IF lo = hi THEN w = <<re[lo]>>
  ELSE
    LET i == lo + 1
        j == ElemEnd(re, i) IN
    CASE re[j + 1] = "*" -> ReRepeat(re, i, j, w, 0, Len(w))
      [] re[j + 1] = "{" ->
           LET n == ParseNum(re[j + 2]) IN
           IF re[j + 3] = "}" THEN ReRepeat(re, i, j, w, n, n)
           ELSE IF re[j + 4] = "}" THEN ReRepeat(re, i, j, w, n, n + Len(w))
           ELSE ReRepeat(re, i, j, w, n, ParseNum(re[j + 4]))
      [] re[j + 1] = "|" ->
           ReMatch(re, i, j, w) \/ ReMatch(re, j + 2, hi - 1, w)
      [] OTHER ->
           \E k \in 0..Len(w) :
             /\ ReMatch(re, i, j, SubSeq(w, 1, k))
             /\ ReMatch(re, j + 1, hi - 1, SubSeq(w, k + 1, Len(w)))

InLanguage(re, w) == ReMatch(re, 1, Len(re), w)

(***************************************************************************)
(* Per-frame symbolization (spec 4.5).  A frame is [index, sat]: its       *)
(* external index and the set of symbols whose spatial formula the frame   *)
(* satisfies.  The frame emits the characters of all satisfied formulas in *)
(* table order; Mapping gives, for every position of the symbol string,    *)
(* the position of its frame in the searched slice (from 0).               *)
(***************************************************************************)
FrameChars(f) == SelectSeq(SymbolTable, LAMBDA c : c \in f.sat)

RECURSIVE Haystack(_)
Haystack(frames) ==
  IF frames = <<>> THEN <<>>
  ELSE FrameChars(Head(frames)) \o Haystack(Tail(frames))

RECURSIVE MappingFrom(_, _)
MappingFrom(frames, i) ==
  IF frames = <<>> THEN <<>>
  ELSE [k \in 1..Len(FrameChars(Head(frames))) |-> i]
         \o MappingFrom(Tail(frames), i + 1)

Mapping(frames) == MappingFrom(frames, 0)

(***************************************************************************)
(* Matching::leftmost: the leftmost match of the pattern in the symbol     *)
(* string of the frames, the longest one at that start, translated to a    *)
(* half-open interval of frame positions.                                  *)
(***************************************************************************)
Match(start, end) == [start |-> start, end |-> end]

\* the half-open intervals [s, e) of the symbol string h that match
StringMatches(re, h) ==
  { m \in (0..Len(h)) \X (0..Len(h)) :
      m[1] <= m[2] /\ InLanguage(re, SubSeq(h, m[1] + 1, m[2])) }

\* the longest end among the matches that start at s
LongestEnd(ms, s) ==
  CHOOSE e \in { m[2] : m \in { x \in ms : x[1] = s } } :
    \A m \in ms : m[1] = s => m[2] <= e

leftmost(re, frames) ==
  LET h == Haystack(frames)
      mp == Mapping(frames)
      ms == StringMatches(re, h) IN
  IF ms = {} THEN None
  ELSE
    LET s == CHOOSE x \in { m[1] : m \in ms } : \A m \in ms : x <= m[1]
        e == LongestEnd(ms, s) IN
    IF e > s THEN Some(Match(mp[s + 1], mp[e] + 1))
    ELSE IF s < Len(h) THEN Some(Match(mp[s + 1], mp[s + 1]))
    ELSE Some(Match(0, 0))

(***************************************************************************)
(* The input: a stream of JSON values, each holding a run of frames.       *)
(* Frame indices are the positions of the frames in the stream.            *)
(***************************************************************************)
SatKindsSymbols == { SymbolTable[i] : i \in 1..Len(SymbolTable) }
SatKinds == SUBSET SatKindsSymbols

RECURSIVE SumSeq(_)
SumSeq(q) == IF q = <<>> THEN 0 ELSE Head(q) + SumSeq(Tail(q))

\* the ways to cut n frames into at most MaxValues JSON values
Chunkings(n) ==
  { c \in UNION { [1..k -> 0..n] : k \in 0..MaxValues } : SumSeq(c) = n }

\* the JSON values of the frames with satisfaction sets flat, cut as c
MkStream(flat, c) ==
  [v \in 1..Len(c) |->
     [k \in 1..c[v] |->
        LET pos == SumSeq(SubSeq(c, 1, v - 1)) + k IN
        [index |-> pos - 1, sat |-> flat[pos]]]]

Flats == UNION { [1..n -> SatKinds] : n \in 0..MaxFrames }

Streams ==
  UNION { { MkStream(flat, c) : c \in Chunkings(Len(flat)) } : flat \in Flats }

Limits == { None } \cup { Some(n) : n \in 0..MaxLimit }

(***************************************************************************)
(* The state: the configuration and the input, and the locals of           *)
(* Controller::offline and Controller::online, which are run one after the *)
(* other on the same pattern, limit and stream.                            *)
(***************************************************************************)
VARIABLES
  pattern,    \* the compiled pattern: ast.root
  limit,      \* config.limit
  stream,     \* the JSON values of the input stream
  failing,    \* the JSON value of the stream whose import fails, if any
  pc,         \* where the drivers are
  cursor,     \* the number of JSON values read from the stream
  pending,    \* the frames of the current JSON value not yet processed
  frames,     \* datastream.frames
  capacity,   \* datastream.capacity
  offset,     \* the offset of the offline search
  count,      \* the number of matches found
  status,     \* the Status the driver returns
  emitted     \* the intervals passed to the callback, per driver

\* the locals of main and App::run
VARIABLES
  parse,      \* how compiling PATTERN ends: "ok", "expected" or "syntax"
  paths,      \* App::paths: None (standard input) or the given files
  stdin,      \* what standard input holds
  pathIdx,    \* the number of paths App::run has gone through
  appStatus,  \* the status local of App::run
  failure,    \* the error that ended the run, "none" so far
  exitCode    \* the exit code of the process, None while it runs

VARIABLES
  record,       \* DetectionRecord::annotations of the sample under evaluation
  spatial,      \* the spatial formula handed to the monitor
  bindingOrder, \* the iteration order of the bindings maps
  mpc,          \* where the evaluation is
  verdict       \* what the evaluation returned

VARIABLES
  ioStream,      \* the JSON values of a stream, as deserialized (io::DataStream)
  twinStream,    \* a second stream, read by a second run with the same options
  skip,          \* config.skip
  channels,      \* config.channels
  ipc,           \* where the loading loop of the driver is
  icursor,       \* the number of JSON values requested so far
  importerCount, \* Importer::count of the run on ioStream
  twinCount,     \* Importer::count of the run on twinStream
  imported,      \* datastream.frames of the run on ioStream
  twinImported   \* datastream.frames of the run on twinStream

\* the state of one Parser::parse call
VARIABLES
  tokens,        \* Parser::buffer, the tokens of the lexer with EndOfFile last
  ast,           \* the root of the AbstractSyntaxTree parse returned, if it did
  exit,          \* what the listener was handed, if the parser called it
  listener,      \* whether an ErrorListener is attached
  ppc            \* where the call is

drvVars == <<pattern, limit, stream, failing, pc, cursor, pending, frames, capacity,
             offset, count, status, emitted>>

appVars == <<parse, paths, stdin, pathIdx, appStatus, failure, exitCode>>

monVars == <<record, spatial, bindingOrder, mpc, verdict>>

impVars == <<ioStream, twinStream, skip, channels, ipc, icursor, importerCount,
             twinCount, imported, twinImported>>

parVars == <<tokens, ast, exit, listener, ppc>>

vars == <<drvVars, appVars, monVars, impVars, parVars>>

config == <<pattern, limit, stream, failing>>

SliceInterval_Closed(buf, s, e) ==
  LET at(p) == IF p < Len(buf) THEN buf[p + 1].index
               ELSE IF buf = <<>> THEN 0
               ELSE buf[Len(buf)].index + 1 IN
  [start |-> at(s), end |-> at(e) + 1]

\* the frame interval of the slice buf[s..e] handed to the callback, as the
\* printer reads it off the frames' indices
SliceInterval(buf, s, e) ==
  LET at(p) == IF p < Len(buf) THEN buf[p + 1].index
               ELSE IF buf = <<>> THEN 0
               ELSE buf[Len(buf)].index + 1 IN
  [start |-> at(s), end |-> at(e)]

\* the limit check with the comparison off by one
OverLimit_OffByOne(cnt, lim) == lim # None /\ cnt > lim[1] + 1

\* controller.rs: if let Some(limit) = config.limit { if count > limit { break } }
OverLimit(cnt, lim) == lim # None /\ cnt > lim[1]

\* DataStream::request: the frames imported from the next JSON value; None at
\* the end of the stream.  A value of the stream is held as the frames the
\* importer returns for it.
request(strm, cur) == IF cur < Len(strm) THEN Some(strm[cur + 1]) ELSE None

ImportFails_Never(fail, cur) == FALSE

\* DataStream::request returns Err: the next JSON value is malformed
\* (`data?`) or Importer::import rejects it (version mismatch)
ImportFails(fail, cur) == fail # None /\ fail[1] = cur + 1

\* main has not been entered
AppIdle ==
  /\ parse = "ok"
  /\ paths = None
  /\ stdin = "not_found"
  /\ pathIdx = 0
  /\ appStatus = "MatchNotFound"
  /\ failure = "none"
  /\ exitCode = None

\* no formula is under evaluation
MonitorIdle ==
  /\ record = <<>>
  /\ spatial = None
  /\ bindingOrder = <<>>
  /\ mpc = "idle"
  /\ verdict = None

\* no stream is being imported
ImporterIdle ==
  /\ ioStream = <<>>
  /\ twinStream = <<>>
  /\ skip = None
  /\ channels = None
  /\ ipc = "idle"
  /\ icursor = 0
  /\ importerCount = 0
  /\ twinCount = 0
  /\ imported = <<>>
  /\ twinImported = <<>>

\* no pattern is being parsed
ParserIdle ==
  /\ tokens = <<>>
  /\ ast = None
  /\ exit = None
  /\ listener = FALSE
  /\ ppc = "idle"

Init ==
  /\ AppIdle
  /\ MonitorIdle
  /\ ImporterIdle
  /\ ParserIdle
  /\ pattern \in { Some(p) : p \in Patterns }
  /\ limit \in Limits
  /\ stream \in Streams
  /\ failing \in { None } \cup { Some(k) : k \in 1..Len(stream) }
  /\ pc = "offline_load"
  /\ cursor = 0
  /\ pending = <<>>
  /\ frames = <<>>
  /\ capacity = None
  /\ offset = 0
  /\ count = 0
  /\ status = "MatchNotFound"
  /\ emitted = [offline |-> <<>>, online |-> <<>>]

(***************************************************************************)
(* Controller::offline                                                     *)
(***************************************************************************)
\* one iteration of the loading loop: request a value, append its frames
OfflineLoad ==
  /\ pc = "offline_load"
  /\ request(stream, cursor) # None
  /\ ~ImportFails(failing, cursor)
  /\ frames' = frames \o request(stream, cursor)[1]
  /\ cursor' = cursor + 1
  /\ UNCHANGED <<appVars, monVars, impVars, parVars, config, pc, pending, capacity, offset, count, status, emitted>>

\* datastream.request(&mut importer)? returns the error: Err, before the
\* search loop is entered
OfflineLoadError ==
  /\ pc = "offline_load"
  /\ ImportFails(failing, cursor)
  /\ cursor' = cursor + 1
  /\ pc' = "offline_error"
  /\ UNCHANGED <<appVars, monVars, impVars, parVars, config, pending, frames, capacity, offset, count, status, emitted>>

\* the stream is exhausted: the search starts with count = 0 and offset = 0
OfflineLoaded ==
  /\ pc = "offline_load"
  /\ request(stream, cursor) = None
  /\ pc' = "offline_search"
  /\ count' = 0
  /\ offset' = 0
  /\ UNCHANGED <<appVars, monVars, impVars, parVars, config, cursor, pending, frames, capacity, status, emitted>>

\* one iteration of the search loop
OfflineSearch ==
  /\ pc = "offline_search"
  /\ offset < Len(frames)
  /\ Len(emitted.offline) < MaxEmit
  /\ LET m == leftmost(regexify(pattern), SubSeq(frames, offset + 1, Len(frames))) IN
     IF m # None THEN
       /\ status' = "MatchFound"
       /\ count' = count + 1
       /\ IF OverLimit(count + 1, limit) THEN
            /\ pc' = "offline_done"
            /\ UNCHANGED <<offset, emitted>>
          ELSE
            /\ emitted' = [emitted EXCEPT !.offline =
                 Append(@, SliceInterval(frames, offset + m[1].start,
                                         offset + m[1].end))]
            /\ offset' = offset + m[1].end
            /\ pc' = pc
     ELSE
       /\ offset' = offset + 1
       /\ UNCHANGED <<pc, count, status, emitted>>
  /\ UNCHANGED <<appVars, monVars, impVars, parVars, config, cursor, pending, frames, capacity>>

\* the search loop ends: Ok(status)
OfflineReturn ==
  /\ pc = "offline_search"
  /\ offset >= Len(frames)
  /\ pc' = "offline_done"
  /\ UNCHANGED <<appVars, monVars, impVars, parVars, config, cursor, pending, frames, capacity, offset, count,
                 status, emitted>>

(***************************************************************************)
(* Controller::online                                                      *)
(***************************************************************************)
\* the entry of Controller::online on a fresh DataStream over the same input
OnlineStart ==
  /\ pc \in {"offline_done", "offline_error"}
  /\ pc' = "online_request"
  /\ status' = "MatchNotFound"
  /\ capacity' = horizon(pattern)
  /\ frames' = <<>>
  /\ cursor' = 0
  /\ pending' = <<>>
  /\ count' = 0
  /\ offset' = 0
  /\ UNCHANGED <<appVars, monVars, impVars, parVars, config, emitted>>

\* while let Some(frames) = datastream.request(..)
OnlineRequest ==
  /\ pc = "online_request"
  /\ request(stream, cursor) # None
  /\ ~ImportFails(failing, cursor)
  /\ cursor' = cursor + 1
  /\ pending' = request(stream, cursor)[1]
  /\ pc' = IF request(stream, cursor)[1] = <<>> THEN "online_request"
           ELSE "online_frames"
  /\ UNCHANGED <<appVars, monVars, impVars, parVars, config, frames, capacity, offset, count, status, emitted>>

\* datastream.request(&mut importer)? returns the error: Err
OnlineRequestError ==
  /\ pc = "online_request"
  /\ ImportFails(failing, cursor)
  /\ cursor' = cursor + 1
  /\ pc' = "online_error"
  /\ UNCHANGED <<appVars, monVars, impVars, parVars, config, pending, frames, capacity, offset, count, status, emitted>>

\* the stream is exhausted: Ok(status)
OnlineReturn ==
  /\ pc = "online_request"
  /\ request(stream, cursor) = None
  /\ pc' = "online_done"
  /\ UNCHANGED <<appVars, monVars, impVars, parVars, config, cursor, pending, frames, capacity, offset, count,
                 status, emitted>>

\* the eviction step on a buffer at capacity: Vec::remove(0)
AtCapacity_Late(buf, cap) == cap # None /\ Len(buf) > cap[1]

AtCapacity(buf, cap) == cap # None /\ Len(buf) >= cap[1]

\* one iteration of `for frame in frames`, the buffer not empty at eviction
OnlineFrame ==
  /\ pc = "online_frames"
  /\ pending # <<>>
  /\ ~(AtCapacity(frames, capacity) /\ frames = <<>>)
  /\ LET kept == IF AtCapacity(frames, capacity) THEN Tail(frames) ELSE frames
         buf == Append(kept, Head(pending))
         m == leftmost(regexify(pattern), buf)
         next == IF Tail(pending) = <<>> THEN "online_request"
                 ELSE "online_frames" IN
     /\ frames' = buf
     /\ IF m # None THEN
          /\ status' = "MatchFound"
          /\ count' = count + 1
          /\ IF OverLimit(count + 1, limit) THEN
               \* break: the rest of this JSON value is dropped
               /\ pending' = <<>>
               /\ pc' = "online_request"
               /\ UNCHANGED emitted
             ELSE
               /\ emitted' = [emitted EXCEPT !.online =
                    Append(@, SliceInterval(buf, m[1].start, m[1].end))]
               /\ pending' = Tail(pending)
               /\ pc' = next
        ELSE
          /\ pending' = Tail(pending)
          /\ pc' = next
          /\ UNCHANGED <<count, status, emitted>>
  /\ UNCHANGED <<appVars, monVars, impVars, parVars, config, cursor, capacity, offset>>

\* the eviction step on an empty buffer (capacity 0): Vec::remove panics
OnlineEvictPanic ==
  /\ pc = "online_frames"
  /\ pending # <<>>
  /\ AtCapacity(frames, capacity)
  /\ frames = <<>>
  /\ pc' = "panic"
  /\ UNCHANGED <<appVars, monVars, impVars, parVars, config, cursor, pending, frames, capacity, offset, count,
                 status, emitted>>

Next ==
  \/ OfflineLoad
  \/ OfflineLoadError
  \/ OfflineLoaded
  \/ OfflineSearch
  \/ OfflineReturn
  \/ OnlineStart
  \/ OnlineRequest
  \/ OnlineRequestError
  \/ OnlineReturn
  \/ OnlineFrame
  \/ OnlineEvictPanic

Spec == Init /\ [][Next]_vars

(***************************************************************************)
(* main and App::run (bin/strem/main.rs, bin/strem/app.rs).  What a run of *)
(* the Controller on one input comes to is an input of this part: the      *)
(* file is missing, the stream fails to import, the monitor panics, or     *)
(* the run returns MatchFound or MatchNotFound.                            *)
(***************************************************************************)
\* the largest number of DATASTREAM paths on the command line
MaxPaths == 3

StreamKinds == {"found", "not_found", "import_error", "panic"}
PathKinds == StreamKinds \cup {"missing"}

\* the drivers are not followed in this part
DriverIdle ==
  /\ pattern = None
  /\ limit = None
  /\ stream = <<>>
  /\ failing = None
  /\ pc = "idle"
  /\ cursor = 0
  /\ pending = <<>>
  /\ frames = <<>>
  /\ capacity = None
  /\ offset = 0
  /\ count = 0
  /\ status = "MatchNotFound"
  /\ emitted = [offline |-> <<>>, online |-> <<>>]

InitApp ==
  /\ DriverIdle
  /\ MonitorIdle
  /\ ImporterIdle
  /\ ParserIdle
  /\ parse \in {"ok", "expected", "syntax"}
  /\ paths \in { None } \cup
       { Some(q) : q \in UNION { [1..n -> PathKinds] : n \in 1..MaxPaths } }
  /\ stdin \in StreamKinds
  /\ pathIdx = 0
  /\ appStatus = "MatchNotFound"
  /\ failure = "none"
  /\ exitCode = None

\* Parser::expect with an unexpected token and Parser::error with the
\* ErrorListener attached: the exit code handed to listener.exit
ExpectExit_Two(how) ==
  IF how = "expected" THEN Some(2) ELSE IF how = "syntax" THEN Some(2) ELSE None

ParserExit(how) ==
  IF how = "expected" THEN Some(1) ELSE IF how = "syntax" THEN Some(2) ELSE None

\* main: the exit code for what App::run returns
MainExit(result) ==
  IF result = "MatchFound" THEN 0 ELSE IF result = "MatchNotFound" THEN 1 ELSE 2

\* the input App::run is about to hand to the Controller
CurrentInput ==
  IF paths = None THEN stdin ELSE paths[1][pathIdx + 1]

Running ==
  /\ pc = "idle"
  /\ exitCode = None
  /\ paths # None => pathIdx < Len(paths[1])

\* File::open fails: App::run returns the AppError, main exits with 2
AppOpenError ==
  /\ Running
  /\ paths # None
  /\ CurrentInput = "missing"
  /\ failure' = "open"
  /\ exitCode' = Some(MainExit("Err"))
  /\ UNCHANGED <<drvVars, monVars, impVars, parVars, parse, paths, stdin, pathIdx, appStatus>>

\* Compiler::compile in the Controller: the parser ends the process through
\* the error listener
AppParseExit ==
  /\ Running
  /\ CurrentInput # "missing"
  /\ ParserExit(parse) # None
  /\ failure' = parse
  /\ exitCode' = ParserExit(parse)
  /\ UNCHANGED <<drvVars, monVars, impVars, parVars, parse, paths, stdin, pathIdx, appStatus>>

\* Controller::run returns an error: App::run returns it, main exits with 2
AppStreamError ==
  /\ Running
  /\ ParserExit(parse) = None
  /\ CurrentInput = "import_error"
  /\ failure' = "import"
  /\ exitCode' = Some(MainExit("Err"))
  /\ UNCHANGED <<drvVars, monVars, impVars, parVars, parse, paths, stdin, pathIdx, appStatus>>

\* the monitor or the printer panics during Controller::run: the process
\* aborts with the exit code of a Rust panic
AppStreamPanic ==
  /\ Running
  /\ ParserExit(parse) = None
  /\ CurrentInput = "panic"
  /\ failure' = "panic"
  /\ exitCode' = Some(101)
  /\ UNCHANGED <<drvVars, monVars, impVars, parVars, parse, paths, stdin, pathIdx, appStatus>>

\* Controller::run returns a status for one of the paths
AppPathDone ==
  /\ Running
  /\ paths # None
  /\ ParserExit(parse) = None
  /\ CurrentInput \in {"found", "not_found"}
  /\ appStatus' = IF CurrentInput = "found" THEN "MatchFound" ELSE appStatus
  /\ pathIdx' = pathIdx + 1
  /\ UNCHANGED <<drvVars, monVars, impVars, parVars, parse, paths, stdin, failure, exitCode>>

\* all paths are done: App::run returns Ok(status)
AppPathsReturn ==
  /\ pc = "idle"
  /\ exitCode = None
  /\ paths # None
  /\ pathIdx = Len(paths[1])
  /\ exitCode' = Some(MainExit(appStatus))
  /\ UNCHANGED <<drvVars, monVars, impVars, parVars, parse, paths, stdin, pathIdx, appStatus, failure>>

\* no path was given: the status of the run on standard input is returned
AppStdinReturn ==
  /\ Running
  /\ paths = None
  /\ ParserExit(parse) = None
  /\ CurrentInput \in {"found", "not_found"}
  /\ appStatus' = IF CurrentInput = "found" THEN "MatchFound" ELSE "MatchNotFound"
  /\ exitCode' = Some(MainExit(IF CurrentInput = "found" THEN "MatchFound"
                                ELSE "MatchNotFound"))
  /\ UNCHANGED <<drvVars, monVars, impVars, parVars, parse, paths, stdin, pathIdx, failure>>

NextApp ==
  \/ AppOpenError
  \/ AppParseExit
  \/ AppStreamError
  \/ AppStreamPanic
  \/ AppPathDone
  \/ AppPathsReturn
  \/ AppStdinReturn

SpecApp == InitApp /\ [][NextApp]_vars

(***************************************************************************)
(* Geometry (datastream/frame/sample/detections/bbox).  Coordinates are    *)
(* integers; the inputs keep every halving and every square root exact.    *)
(***************************************************************************)
Point(x, y) == [x |-> x, y |-> y]

\* f64::sqrt, on perfect squares
Sqrt(n) == CHOOSE r \in 0..n : r * r = n

\* aa::Region::new
AxisAligned(center, width, height) ==
  [kind |-> "AxisAligned",
   min |-> Point(center.x - (width \div 2), center.y - (height \div 2)),
   max |-> Point(center.x + (width \div 2), center.y + (height \div 2))]

\* oriented::Region::new, for a rotation of 0 (cos = 1, sin = 0)
Oriented(center, width, height) ==
  LET x == width \div 2
      y == height \div 2 IN
  [kind |-> "Oriented",
   tl |-> Point(center.x - x, center.y - y),
   tr |-> Point(center.x + x, center.y - y),
   br |-> Point(center.x + x, center.y + y),
   bl |-> Point(center.x - x, center.y + y)]

\* Region::width, Region::height, Region::center of both kinds of region
Width(b) ==
  IF b.kind = "AxisAligned" THEN b.max.x - b.min.x
  ELSE Sqrt((b.tr.x - b.tl.x) * (b.tr.x - b.tl.x)
            + (b.tr.y - b.tl.y) * (b.tr.y - b.tl.y))

Height(b) ==
  IF b.kind = "AxisAligned" THEN b.max.y - b.min.y
  ELSE Sqrt((b.tl.x - b.bl.x) * (b.tl.x - b.bl.x)
            + (b.tl.y - b.bl.y) * (b.tl.y - b.bl.y))

Center(b) ==
  IF b.kind = "AxisAligned"
  THEN Point(b.min.x + (Width(b) \div 2), b.min.y + (Height(b) \div 2))
  ELSE Point((b.tl.x + b.br.x) \div 2, (b.tl.y + b.br.y) \div 2)

Min(x, y) == IF x <= y THEN x ELSE y

\* aa::Region::intersects
RegionIntersects_Closed(a, b) ==
  IF a.min.x <= b.max.x /\ b.min.x <= a.max.x /\ a.min.y <= b.max.y /\ b.min.y <= a.max.y
  THEN Some([kind |-> "AxisAligned",
             min |-> Point(Max(a.min.x, b.min.x), Max(a.min.y, b.min.y)),
             max |-> Point(Min(a.max.x, b.max.x), Min(a.max.y, b.max.y))])
  ELSE None

RegionIntersects(a, b) ==
  IF a.min.x < b.max.x /\ b.min.x < a.max.x /\ a.min.y < b.max.y /\ b.min.y < a.max.y
  THEN Some([kind |-> "AxisAligned",
             min |-> Point(Max(a.min.x, b.min.x), Max(a.min.y, b.min.y)),
             max |-> Point(Min(a.max.x, b.max.x), Min(a.max.y, b.max.y))])
  ELSE None

\* a value, or the panic that ended the evaluation
Ok(v) == [panic |-> FALSE, val |-> v]
Panicked == [panic |-> TRUE, val |-> <<>>]

BoxIntersects_OrientedNone(a, b) ==
  IF a.kind = "AxisAligned" THEN
    (IF b.kind = "AxisAligned" THEN Ok(RegionIntersects(a, b)) ELSE Ok(None))
  ELSE Ok(None)

\* BoundingBox::intersects: two oriented regions reach unimplemented!()
BoxIntersects(a, b) ==
  IF a.kind = "AxisAligned" THEN
    (IF b.kind = "AxisAligned" THEN Ok(RegionIntersects(a, b)) ELSE Ok(None))
  ELSE IF b.kind = "Oriented" THEN Panicked
  ELSE Ok(None)

\* s4m.rs: euclidean, the distance between the centers
Euclidean(a, b) ==
  Sqrt((Center(b).x - Center(a).x) * (Center(b).x - Center(a).x)
       + (Center(b).y - Center(a).y) * (Center(b).y - Center(a).y))

Annotation(label, bbox) == [label |-> label, bbox |-> bbox]

(***************************************************************************)
(* The spatial AST (compiler/ir): SpatialFormula = Node<OperandKind>.      *)
(***************************************************************************)
Symbol(label) == [node |-> "Operand", kind |-> "Symbol", name |-> label]
Variable(name) == [node |-> "Operand", kind |-> "Variable", name |-> name]
Number(x) == [node |-> "Operand", kind |-> "Number", value |-> x]
Unary(op, child) == [node |-> "UnaryExpr", op |-> op, child |-> child]
Binary(op, lhs, rhs) == [node |-> "BinaryExpr", op |-> op, lhs |-> lhs, rhs |-> rhs]

\* the operators, by sort (ops.rs); t is the bindings map of a binder
Op(sort, kind) == [sort |-> sort, kind |-> kind]
Function(name) == [sort |-> "S4m", kind |-> "Function", name |-> name]
Exists(t) == [sort |-> "S4u", kind |-> "Exists", t |-> t]
Forall(t) == [sort |-> "S4u", kind |-> "Forall", t |-> t]

\* the pairs (l, r) in the order of `for l in lhs { for r in rhs { .. } }`
Pairs(lhs, rhs) ==
  [k \in 1..(Len(lhs) * Len(rhs)) |->
     <<lhs[((k - 1) \div Len(rhs)) + 1], rhs[((k - 1) % Len(rhs)) + 1]>>]

RECURSIVE Flatten(_)
Flatten(q) == IF q = <<>> THEN <<>> ELSE Head(q) \o Flatten(Tail(q))

(***************************************************************************)
(* monitor/s4.rs: Monitor::evaluate, the annotations of a region formula.  *)
(* detections maps the labels present to their annotations; table is the   *)
(* Option of the lookup table of the enclosing binders.                    *)
(***************************************************************************)
RECURSIVE S4Evaluate(_, _, _)
S4Evaluate(detections, table, formula) ==
  IF formula.node = "Operand" THEN
    CASE formula.kind = "Symbol" ->
           Ok(IF formula.name \in DOMAIN detections
              THEN detections[formula.name] ELSE <<>>)
      [] formula.kind = "Variable" ->
           Ok(IF table # None /\ formula.name \in DOMAIN table[1]
              THEN <<table[1][formula.name]>> ELSE <<>>)
      [] OTHER -> Panicked
  ELSE IF formula.node = "UnaryExpr" THEN
    \* Complement is todo!(), every other unary operator panics
    Panicked
  ELSE
    LET lhs == S4Evaluate(detections, table, formula.lhs)
        rhs == S4Evaluate(detections, table, formula.rhs) IN
    IF lhs.panic \/ rhs.panic THEN Panicked
    ELSE IF formula.op.sort # "S4" THEN Panicked
    ELSE IF formula.op.kind = "Intersection" THEN
      IF lhs.val = <<>> \/ rhs.val = <<>> THEN Ok(<<>>)
      ELSE
        LET ps == Pairs(lhs.val, rhs.val)
            hit(k) == BoxIntersects(ps[k][1].bbox, ps[k][2].bbox) IN
        IF \E k \in 1..Len(ps) : hit(k).panic THEN Panicked
        ELSE Ok(Flatten([k \in 1..Len(ps) |->
                           IF hit(k).val # None THEN <<ps[k][1], ps[k][2]>>
                           ELSE <<>>]))
    ELSE IF formula.op.kind = "Union" THEN Ok(lhs.val \o rhs.val)
    ELSE Panicked

(***************************************************************************)
(* monitor/s4m.rs: Monitor::evaluate, the scalars of a metric formula.     *)
(***************************************************************************)
\* the unary functions on one annotation
UnaryFunction(name, a) ==
  CASE name = "x" -> Center(a.bbox).x
    [] name = "y" -> Center(a.bbox).y
    [] name = "dist" ->
         Sqrt(Center(a.bbox).x * Center(a.bbox).x
              + Center(a.bbox).y * Center(a.bbox).y)
    [] name = "area" -> Width(a.bbox) * Height(a.bbox)

\* l op r; the inputs keep a quotient exact and its divisor non-zero
Arithmetic(kind, l, r) ==
  CASE kind = "Addition" -> l + r
    [] kind = "Subtraction" -> l - r
    [] kind = "Multiplication" -> l * r
    [] kind = "Division" -> l \div r

RECURSIVE S4mEvaluate(_, _, _)
S4mEvaluate(detections, table, formula) ==
  IF formula.node = "Operand" THEN
    (IF formula.kind = "Number" THEN Ok(<<formula.value>>) ELSE Panicked)
  ELSE IF formula.op.sort # "S4m" THEN Panicked
  ELSE IF formula.node = "UnaryExpr" THEN
    IF formula.op.kind = "Inverse" THEN
      LET res == S4mEvaluate(detections, table, formula.child) IN
      IF res.panic THEN Panicked
      ELSE Ok([k \in 1..Len(res.val) |-> 0 - res.val[k]])
    ELSE IF formula.op.kind = "Function"
            /\ formula.op.name \in {"x", "y", "dist", "area"} THEN
      LET annotations == S4Evaluate(detections, table, formula.child) IN
      IF annotations.panic THEN Panicked
      ELSE Ok([k \in 1..Len(annotations.val) |->
                 UnaryFunction(formula.op.name, annotations.val[k])])
    ELSE Panicked
  ELSE
    IF formula.op.kind \in {"Addition", "Subtraction", "Multiplication", "Division"} THEN
      LET lhs == S4mEvaluate(detections, table, formula.lhs)
          rhs == S4mEvaluate(detections, table, formula.rhs) IN
      IF lhs.panic \/ rhs.panic THEN Panicked
      ELSE LET ps == Pairs(lhs.val, rhs.val) IN
           Ok([k \in 1..Len(ps) |-> Arithmetic(formula.op.kind, ps[k][1], ps[k][2])])
    ELSE IF formula.op.kind = "Function" /\ formula.op.name = "dist" THEN
      LET lhs == S4Evaluate(detections, table, formula.lhs)
          rhs == S4Evaluate(detections, table, formula.rhs) IN
      IF lhs.panic \/ rhs.panic THEN Panicked
      ELSE LET ps == Pairs(lhs.val, rhs.val) IN
           Ok([k \in 1..Len(ps) |-> Euclidean(ps[k][1].bbox, ps[k][2].bbox)])
    ELSE Panicked

(***************************************************************************)
(* monitor/s4u.rs: Monitor::evaluate, the truth of a formula on the        *)
(* detections of one sample.  order is the order in which the bindings map *)
(* of a binder iterates.                                                   *)
(***************************************************************************)
\* t.iter(): the variables of the bindings map, in its iteration order
Iter(t, order) == SelectSeq(order, LAMBDA v : v \in DOMAIN t)

\* multi_cartesian_product: one lookup per choice of an annotation for each
\* variable, the first variable varying slowest
RECURSIVE MultiCartesianProduct(_)
MultiCartesianProduct(bindings) ==
  IF bindings = <<>> THEN << <<>> >>
  ELSE LET entries == Head(bindings)
           rest == MultiCartesianProduct(Tail(bindings)) IN
       Flatten([i \in 1..Len(entries) |->
                  [j \in 1..Len(rest) |-> <<entries[i]>> \o rest[j]]])

\* the lookup table of one tuple of entries: the enclosing table, then the
\* entries inserted over it
RECURSIVE InsertAll(_, _)
InsertAll(lookup, entries) ==
  IF entries = <<>> THEN lookup
  ELSE InsertAll((Head(entries)[1] :> Head(entries)[2]) @@ lookup, Tail(entries))

Lookup(table, entries) ==
  InsertAll(IF table # None THEN table[1] ELSE <<>>, entries)

\* the comparison of one pair of scalars
Relation_Strict(kind, l, r) ==
  CASE kind \in {"LessThan", "LessThanEqualTo"} -> l < r
    [] kind \in {"GreaterThan", "GreaterThanEqualTo"} -> l > r

Relation(kind, l, r) ==
  CASE kind = "LessThan" -> l < r
    [] kind = "GreaterThan" -> l > r
    [] kind = "LessThanEqualTo" -> l <= r
    [] kind = "GreaterThanEqualTo" -> l >= r

\* the nested loops of a comparison, from the pair (i, j) on: true at the
\* first pair in the relation, false when the loops run out
RECURSIVE AnyPair(_, _, _, _, _)
AnyPair(kind, lhs, rhs, i, j) ==
  IF i > Len(lhs) THEN FALSE
  ELSE IF j > Len(rhs) THEN AnyPair(kind, lhs, rhs, i + 1, 1)
  ELSE IF Relation(kind, lhs[i], rhs[j]) THEN TRUE
  ELSE AnyPair(kind, lhs, rhs, i, j + 1)

IterAny_FirstTwo(res) == res # <<>> /\ (Head(res) \/ (Len(res) > 1 /\ res[2]))

\* res.iter().any(|x| *x) and res.iter().all(|x| *x)
RECURSIVE IterAny(_)
IterAny(res) == IF res = <<>> THEN FALSE ELSE IF Head(res) THEN TRUE ELSE IterAny(Tail(res))

RECURSIVE IterAll(_)
IterAll(res) == IF res = <<>> THEN TRUE ELSE IF Head(res) THEN IterAll(Tail(res)) ELSE FALSE

\* the verdict of a universal binder on the results of its tuples
ForallVerdict_Vacuous(res) == IterAll(res)

ForallVerdict(res) == IF res = <<>> THEN FALSE ELSE IterAll(res)

RECURSIVE S4uEvaluate(_, _, _, _)
S4uEvaluate(detections, table, formula, order) ==
  IF formula.node = "Operand" THEN
    (IF formula.kind = "Symbol" THEN Ok(formula.name \in DOMAIN detections)
     ELSE Panicked)
  ELSE IF formula.node = "UnaryExpr" THEN
    IF formula.op.sort = "S4u" THEN
      IF formula.op.kind = "NonEmpty" THEN
        LET res == S4Evaluate(detections, table, formula.child) IN
        IF res.panic THEN Panicked ELSE Ok(res.val # <<>>)
      ELSE
        \* Exists(t) and Forall(t)
        LET t == formula.op.t
            vs == Iter(t, order)
            valuation(k) == S4Evaluate(detections, table, t[vs[k]]) IN
        IF \E k \in 1..Len(vs) : valuation(k).panic THEN Panicked
        ELSE
          LET bindings == [k \in 1..Len(vs) |->
                             [i \in 1..Len(valuation(k).val) |->
                                <<vs[k], valuation(k).val[i]>>]]
              product == MultiCartesianProduct(bindings)
              each(k) == S4uEvaluate(detections, Some(Lookup(table, product[k])),
                                     formula.child, order) IN
          IF \E k \in 1..Len(product) : each(k).panic THEN Panicked
          ELSE LET res == [k \in 1..Len(product) |-> each(k).val] IN
               IF formula.op.kind = "Exists" THEN Ok(IterAny(res))
               ELSE Ok(ForallVerdict(res))
    ELSE IF formula.op.sort = "FOL" /\ formula.op.kind = "Negation" THEN
      LET res == S4uEvaluate(detections, table, formula.child, order) IN
      IF res.panic THEN Panicked ELSE Ok(~res.val)
    ELSE Panicked
  ELSE
    IF formula.op.sort # "FOL" THEN Panicked
    ELSE IF formula.op.kind \in {"Conjunction", "Disjunction"} THEN
      LET lhs == S4uEvaluate(detections, table, formula.lhs, order)
          rhs == S4uEvaluate(detections, table, formula.rhs, order) IN
      IF lhs.panic \/ rhs.panic THEN Panicked
      ELSE IF formula.op.kind = "Conjunction" THEN Ok(lhs.val /\ rhs.val)
      ELSE Ok(lhs.val \/ rhs.val)
    ELSE IF formula.op.kind \in {"LessThan", "GreaterThan",
                                 "LessThanEqualTo", "GreaterThanEqualTo"} THEN
      LET lhs == S4mEvaluate(detections, table, formula.lhs)
          rhs == S4mEvaluate(detections, table, formula.rhs) IN
      IF lhs.panic \/ rhs.panic THEN Panicked
      ELSE Ok(AnyPair(formula.op.kind, lhs.val, rhs.val, 1, 1))
    ELSE Panicked

(***************************************************************************)
(* The monitor on one sample: s4u::Monitor::evaluate is called with no     *)
(* table on the annotations the importer recorded for the sample.          *)
(***************************************************************************)
MaxAnnotations == 2

\* the annotations a sample may carry
AnnotationPool ==
  { Annotation("car", AxisAligned(Point(1, 1), 2, 2)),
    Annotation("car", AxisAligned(Point(5, 1), 2, 2)),
    Annotation("car", AxisAligned(Point(31, 1), 2, 2)),
    Annotation("car", AxisAligned(Point(81, 1), 2, 2)),
    Annotation("bus", AxisAligned(Point(3, 1), 2, 2)),
    Annotation("bus", Oriented(Point(3, 3), 2, 2)),
    Annotation("road", AxisAligned(Point(2, 2), 4, 2)) }

AnnotationLists == UNION { [1..n -> AnnotationPool] : n \in 0..MaxAnnotations }

Record_AllLabels(annotations) ==
  [label \in {"car", "bus", "road"} |->
     SelectSeq(annotations, LAMBDA a : a.label = label)]

\* Importer: record.annotations.entry(class).or_default().push(annotation)
Record(annotations) ==
  [label \in { annotations[i].label : i \in 1..Len(annotations) } |->
     SelectSeq(annotations, LAMBDA a : a.label = label)]

Car == Symbol("car")
Bus == Symbol("bus")
X(region) == Unary(Function("x"), region)
Road == Symbol("road")
Compare(kind, lhs, rhs) == Binary(Op("FOL", kind), lhs, rhs)
Dist(lhs, rhs) == Binary(Function("dist"), lhs, rhs)
NonEmptyIntersection(lhs, rhs) ==
  Unary(Op("S4u", "NonEmpty"), Binary(Op("S4", "Intersection"), lhs, rhs))

\* [E(a := [:car:], b := [:car:]) @dist(a, b) < 50]
CarsWithin50 ==
  Unary(Exists([a |-> Car, b |-> Car]),
        Compare("LessThan", Dist(Variable("a"), Variable("b")), Number(50)))

SpatialFormulas ==
  { \* [A(u := [:car:]) @x(u) < 4]
    Unary(Forall([u |-> Car]), Compare("LessThan", X(Variable("u")), Number(4))),
    \* [A(u := [:car:], v := [:bus:]) @x(u) < @x(v)]
    Unary(Forall([u |-> Car, v |-> Bus]),
          Compare("LessThan", X(Variable("u")), X(Variable("v")))),
    \* [A(u := [:car:]) E(v := [:bus:]) @x(u) <= @x(v)]
    Unary(Forall([u |-> Car]),
          Unary(Exists([v |-> Bus]),
                Compare("LessThanEqualTo", X(Variable("u")), X(Variable("v"))))),
    \* [A(u := [:car:] | [:bus:]) <nonempty>(u & [:bus:])]
    Unary(Forall([u |-> Binary(Op("S4", "Union"), Car, Bus)]),
          Unary(Op("S4u", "NonEmpty"),
                Binary(Op("S4", "Intersection"), Variable("u"), Bus))),
    \* [A(u := [:car:]) [:bus:]]
    Unary(Forall([u |-> Car]), Bus),
    \* [E(u := [:car:]) @x(u) >= 4]
    Unary(Exists([u |-> Car]),
          Compare("GreaterThanEqualTo", X(Variable("u")), Number(4))),
    \* [!(A(u := [:car:]) @x(u) < 4) & [:bus:]]
    Binary(Op("FOL", "Conjunction"),
           Unary(Op("FOL", "Negation"),
                 Unary(Forall([u |-> Car]),
                       Compare("LessThan", X(Variable("u")), Number(4)))),
           Bus),
    \* [@x([:car:]) < @x([:bus:])]
    Compare("LessThan", X(Car), X(Bus)),
    \* [@x([:car:]) > @x([:bus:])]
    Compare("GreaterThan", X(Car), X(Bus)),
    \* [@x([:car:]) <= 1]
    Compare("LessThanEqualTo", X(Car), Number(1)),
    \* [@x([:bus:]) >= @x([:car:]) + 2]
    Compare("GreaterThanEqualTo", X(Bus),
            Binary(Op("S4m", "Addition"), X(Car), Number(2))),
    CarsWithin50,
    \* [<nonempty>([:car:] & [:road:])]
    NonEmptyIntersection(Car, Road),
    \* [<nonempty>([:bus:] & [:car:])]
    NonEmptyIntersection(Bus, Car),
    \* [<nonempty>([:road:] & [:road:])]
    NonEmptyIntersection(Road, Road),
    \* [<nonempty>(![:car:])]
    Unary(Op("S4u", "NonEmpty"), Unary(Op("S4", "Complement"), Car)),
    \* [[:car:]]   [[:bus:]]
    Car, Bus,
    \* [<nonempty>([:bus:] & [:bus:])]
    NonEmptyIntersection(Bus, Bus),
    \* [<nonempty>([:car:] & ![:bus:])]
    NonEmptyIntersection(Car, Unary(Op("S4", "Complement"), Bus)),
    \* [@speed([:car:]) < 4]
    Compare("LessThan", Unary(Function("speed"), Car), Number(4)),
    \* [E(a := [:car:], b := [:car:]) @x(a) < @x(b)]
    Unary(Exists([a |-> Car, b |-> Car]),
          Compare("LessThan", X(Variable("a")), X(Variable("b")))),
    \* [@area([:car:], [:bus:]) < 4]
    Compare("LessThan", Binary(Function("area"), Car, Bus), Number(4)) }

BindingOrders == { <<"a", "b", "u", "v">>, <<"v", "u", "b", "a">> }

InitMonitor ==
  /\ DriverIdle
  /\ AppIdle
  /\ ImporterIdle
  /\ ParserIdle
  /\ record \in { Record(annotations) : annotations \in AnnotationLists }
  /\ spatial \in { Some(f) : f \in SpatialFormulas }
  /\ bindingOrder \in BindingOrders
  /\ mpc = "evaluate"
  /\ verdict = None

\* the evaluation returns
Evaluate ==
  /\ mpc = "evaluate"
  /\ LET res == S4uEvaluate(record, None, spatial[1], bindingOrder) IN
       /\ ~res.panic
       /\ verdict' = Some(res.val)
  /\ mpc' = "done"
  /\ UNCHANGED <<drvVars, appVars, impVars, parVars, record, spatial, bindingOrder>>

\* the evaluation reaches a panic!, todo!() or unimplemented!()
EvaluatePanic ==
  /\ mpc = "evaluate"
  /\ S4uEvaluate(record, None, spatial[1], bindingOrder).panic
  /\ mpc' = "panic"
  /\ UNCHANGED <<drvVars, appVars, impVars, parVars, record, spatial, bindingOrder, verdict>>

NextMonitor == Evaluate \/ EvaluatePanic

SpecMonitor == InitMonitor /\ [][NextMonitor]_vars

(***************************************************************************)
(* datastream/io/importer.rs: Importer::import, and the loop of the driver *)
(* that requests the JSON values of a stream one after the other.  Two     *)
(* runs with the same options are followed side by side, the second one on *)
(* twinStream.                                                             *)
(***************************************************************************)
MaxImportFrames == 2
MaxSamples == 1
MaxSkip == 2

\* env!("CARGO_PKG_VERSION") and the versions a JSON value may carry
CARGO_PKG_VERSION == "current"
Versions == { CARGO_PKG_VERSION, "other" }

ChannelNames == { "front", "rear" }

\* io::Sample::ObjectDetection: a channel and its annotations
IoSamples ==
  { [channel |-> c, annotations |-> <<Annotation("car", AxisAligned(Point(1, 1), 2, 2))>>] :
      c \in ChannelNames }

IoSampleLists == UNION { [1..n -> IoSamples] : n \in 0..MaxSamples }

\* the JSON values of a stream: the frames with the samples of flat, cut as
\* c, the JSON value bad (if any) carrying another version
MkIoStream(flat, c, bad) ==
  [v \in 1..Len(c) |->
     [version |-> IF v = bad THEN "other" ELSE CARGO_PKG_VERSION,
      frames |-> [k \in 1..c[v] |->
                    LET pos == SumSeq(SubSeq(c, 1, v - 1)) + k IN
                    [index |-> pos - 1, samples |-> flat[pos]]]]]

IoFlats == UNION { [1..n -> IoSampleLists] : n \in 0..MaxImportFrames }

\* the channel passes the filter of config.channels
Allowed_All(chans, channel) == TRUE

Allowed(chans, channel) == chans # None => channel \in chans[1]

\* the samples of a frame whose channel is in the allowlist (all of them
\* when there is none), in their order
Allowlisted(chans, samples) ==
  IF chans = None THEN samples
  ELSE SelectSeq(samples, LAMBDA x : x.channel \in chans[1])

\* flat, and the frames that differ from those of flat in one frame, and
\* there only in samples on channels that are not allowed; any two streams
\* with the same allowed samples are joined by a chain of such steps
TwinFlats(chans, flat) ==
  { flat }
    \cup UNION { { [flat EXCEPT ![k] = x] :
                     x \in { y \in IoSampleLists :
                               Allowlisted(chans, y) = Allowlisted(chans, flat[k]) } } :
                 k \in 1..Len(flat) }

\* the version check at the head of Importer::import
VersionMismatch_Never(data) == FALSE

VersionMismatch(data) == data.version # CARGO_PKG_VERSION

\* the skip test of a frame
SkipFrame_OffByOne(skp, cnt) == skp # None /\ cnt <= skp[1]

SkipFrame(skp, cnt) == skp # None /\ cnt < skp[1]

\* one sample, imported: the DetectionRecord of its channel
ImportSample(x) == [channel |-> x.channel, annotations |-> Record(x.annotations)]

\* the samples pushed to a frame: those on the allowed channels
RECURSIVE ImportSamples(_, _)
ImportSamples(chans, samples) ==
  IF samples = <<>> THEN <<>>
  ELSE IF Allowed(chans, Head(samples).channel)
    THEN <<ImportSample(Head(samples))>> \o ImportSamples(chans, Tail(samples))
    ELSE ImportSamples(chans, Tail(samples))

\* the loop over data.frames with the channel filter leaving the frame, not
\* the sample
RECURSIVE ImportFrames_DropFiltered(_, _, _, _)
ImportFrames_DropFiltered(skp, chans, cnt, fs) ==
  IF fs = <<>> THEN [frames |-> <<>>, count |-> cnt]
  ELSE IF SkipFrame(skp, cnt)
    THEN ImportFrames_DropFiltered(skp, chans, cnt + 1, Tail(fs))
  ELSE LET frame == [index |-> Head(fs).index,
                     samples |-> ImportSamples(chans, Head(fs).samples)]
           rest == ImportFrames_DropFiltered(skp, chans, cnt, Tail(fs)) IN
       [frames |-> (IF Len(frame.samples) = Len(Head(fs).samples)
                      THEN <<frame>> ELSE <<>>) \o rest.frames,
        count |-> rest.count]

\* the loop over data.frames: the frames pushed and the count it ends with
RECURSIVE ImportFrames(_, _, _, _)
ImportFrames(skp, chans, cnt, fs) ==
  IF fs = <<>> THEN [frames |-> <<>>, count |-> cnt]
  ELSE IF SkipFrame(skp, cnt) THEN ImportFrames(skp, chans, cnt + 1, Tail(fs))
  ELSE LET frame == [index |-> Head(fs).index,
                     samples |-> ImportSamples(chans, Head(fs).samples)]
           rest == ImportFrames(skp, chans, cnt, Tail(fs)) IN
       [frames |-> <<frame>> \o rest.frames, count |-> rest.count]

\* Importer::import: an error, or the frames of the value; count is the
\* Importer::count it leaves
import(skp, chans, cnt, data) ==
  IF VersionMismatch(data) THEN [err |-> TRUE, frames |-> <<>>, count |-> cnt]
  ELSE LET res == ImportFrames(skp, chans, cnt, data.frames) IN
       [err |-> FALSE, frames |-> res.frames, count |-> res.count]

InitImport ==
  /\ DriverIdle
  /\ AppIdle
  /\ MonitorIdle
  /\ ParserIdle
  /\ skip \in { None } \cup { Some(n) : n \in 0..MaxSkip }
  /\ channels \in { None, Some({"front"}) }
  /\ \E flat \in IoFlats :
       \E c \in Chunkings(Len(flat)) : \E bad \in 0..Len(c) :
         \E twin \in TwinFlats(channels, flat) :
           /\ ioStream = MkIoStream(flat, c, bad)
           /\ twinStream = MkIoStream(twin, c, bad)
  /\ ipc = "request"
  /\ icursor = 0
  /\ importerCount = 0
  /\ twinCount = 0
  /\ imported = <<>>
  /\ twinImported = <<>>

\* datastream.request returns Ok(Some(frames)): the frames are appended
ImportValue ==
  /\ ipc = "request"
  /\ icursor < Len(ioStream)
  /\ LET res == import(skip, channels, importerCount, ioStream[icursor + 1])
         twin == import(skip, channels, twinCount, twinStream[icursor + 1]) IN
       /\ ~res.err
       /\ imported' = imported \o res.frames
       /\ importerCount' = res.count
       /\ twinImported' = twinImported \o twin.frames
       /\ twinCount' = twin.count
  /\ icursor' = icursor + 1
  /\ UNCHANGED <<drvVars, appVars, monVars, parVars, ioStream, twinStream, skip, channels, ipc>>

\* datastream.request returns the error of the importer: the driver returns
\* it to its caller
ImportError ==
  /\ ipc = "request"
  /\ icursor < Len(ioStream)
  /\ import(skip, channels, importerCount, ioStream[icursor + 1]).err
  /\ ipc' = "error"
  /\ icursor' = icursor + 1
  /\ UNCHANGED <<drvVars, appVars, monVars, parVars, ioStream, twinStream, skip, channels,
                 importerCount, twinCount, imported, twinImported>>

\* datastream.request returns Ok(None): the stream is exhausted
ImportEnd ==
  /\ ipc = "request"
  /\ icursor = Len(ioStream)
  /\ ipc' = "loaded"
  /\ UNCHANGED <<drvVars, appVars, monVars, parVars, ioStream, twinStream, skip, channels,
                 icursor, importerCount, twinCount, imported, twinImported>>

NextImport == ImportValue \/ ImportError \/ ImportEnd

SpecImport == InitImport /\ [][NextImport]_vars

(***************************************************************************)
(* matcher.rs: horizon on its own, applied to the AST of a pattern; an     *)
(* empty pattern is parsed to an AST without root.                         *)
(***************************************************************************)
MaxCount == 2
PatternDepth == 2

\* the regex operators applied to the patterns of ps
Grow(ps) ==
  ps
  \cup { KleeneStar(x) : x \in ps }
  \cup { Exactly(x, n) : x \in ps, n \in 0..MaxCount }
  \cup { AtLeast(x, 1) : x \in ps }
  \cup { Between(x, 1, m) : x \in ps, m \in 1..MaxCount }
  \cup { Concatenation(x, y) : x \in ps, y \in ps }
  \cup { Alternation(x, y) : x \in ps, y \in ps }

RECURSIVE PatternsUpTo(_)
PatternsUpTo(d) ==
  IF d = 0 THEN { Operand("a"), Operand("b") } ELSE Grow(PatternsUpTo(d - 1))

InitHorizon ==
  /\ AppIdle
  /\ MonitorIdle
  /\ ImporterIdle
  /\ ParserIdle
  /\ pattern \in { None } \cup { Some(x) : x \in PatternsUpTo(PatternDepth) }
  /\ limit = None
  /\ stream = <<>>
  /\ failing = None
  /\ pc = "horizon"
  /\ cursor = 0
  /\ pending = <<>>
  /\ frames = <<>>
  /\ capacity = None
  /\ offset = 0
  /\ count = 0
  /\ status = "MatchNotFound"
  /\ emitted = [offline |-> <<>>, online |-> <<>>]

\* matcher::horizon(&ast)
Horizon ==
  /\ pc = "horizon"
  /\ capacity' = horizon(pattern)
  /\ pc' = "horizon_done"
  /\ UNCHANGED <<appVars, monVars, impVars, parVars, config, cursor, pending, frames, offset, count,
                 status, emitted>>

NextHorizon == Horizon

SpecHorizon == InitHorizon /\ [][NextHorizon]_vars

(***************************************************************************)
(* compiler/parser.rs: the recursive-descent parser.  A token is a kind, a *)
(* lexeme and a position (line, column); the buffer ends with EndOfFile.   *)
(* The parser between two steps is its `current`, the node the running     *)
(* production holds, and what the listener was handed: the listener ends   *)
(* the process, so nothing after the first call to it is executed.         *)
(* The result of a call is named by binding it in a one-element set, which *)
(* evaluates the call once however often the result is used.               *)
(***************************************************************************)
Token(kind, lexeme) == [kind |-> kind, lexeme |-> lexeme]

Only(S) == CHOOSE x \in S : TRUE

Halted(r) == r.exit # None

\* Parser::peek(1)
peek(ts, r0) ==
  Only({ IF r.cur >= Len(ts) THEN None ELSE Some(ts[r.cur + 1]) : r \in {r0} })

PeekKind(ts, r) ==
  Only({ IF p = None THEN "None" ELSE p[1].kind : p \in {peek(ts, r)} })

\* ErrorListener::exit(message, code)
ListenerExit(r, message, code) ==
  [r EXCEPT !.node = None, !.exit = Some([message |-> message, code |-> code])]

expect_AsSyntax(ts, r0, kind) ==
  Only({ IF Halted(r) THEN r
         ELSE IF ts[r.cur + 1].kind # kind THEN
           ListenerExit(r, [text |-> "syntax error",
                            position |-> ts[r.cur + 1].position], 2)
         ELSE [r EXCEPT !.cur = @ + 1]
         : r \in {r0} })

\* Parser::expect: format!("parser: {}:{}: expected {:?} but found {:?}")
expect(ts, r0, kind) ==
  Only({ IF Halted(r) THEN r
         ELSE IF ts[r.cur + 1].kind # kind THEN
           ListenerExit(r, [text |-> "expected but found",
                            position |-> ts[r.cur + 1].position,
                            expected |-> kind,
                            found |-> ts[r.cur + 1].kind], 1)
         ELSE [r EXCEPT !.cur = @ + 1]
         : r \in {r0} })

\* Parser::error: format!("parser: {}:{}: syntax error")
error(ts, r0) ==
  Only({ IF Halted(r) THEN r
         ELSE ListenerExit(r, [text |-> "syntax error",
                               position |-> ts[r.cur + 1].position], 2)
         : r \in {r0} })

\* the lexeme of the token an expect has just passed
Lexeme(ts, r) == ts[r.cur].lexeme

\* `node = Some(..)` of a production, with the operands it unwraps
Hold(r0, n) ==
  Only({ IF Halted(r) THEN r ELSE [r EXCEPT !.node = Some(n)] : r \in {r0} })

\* Node::from(tree): a spatial formula as the operand of the SpRE
NodeFrom(tree) == [node |-> "Operand", formula |-> tree]

\* Parser::parse_class / parse_object; the Identifier is the third token
parse_class(ts, r0) ==
  Only({ Hold(r, Symbol(ts[r.cur - 2].lexeme))
         : r \in { expect(ts,
                     expect(ts,
                       expect(ts,
                         expect(ts, expect(ts, r0, "LeftBracket"), "Colon"),
                         "Identifier"),
                       "Colon"),
                     "RightBracket") } })

\* the RangeKind after `{ min`: r has passed the Integer of min
RangeKind(ts, r0) ==
  Only({ IF Halted(r) THEN r
         ELSE IF PeekKind(ts, r) = "Comma" THEN
           Only({ IF PeekKind(ts, c) = "Integer" THEN
                    Only({ Hold(m, [kind |-> "Between",
                                    min |-> ParseNum(Lexeme(ts, r)),
                                    max |-> ParseNum(Lexeme(ts, m))])
                           : m \in { expect(ts, c, "Integer") } })
                  ELSE Hold(c, [kind |-> "AtLeast",
                                min |-> ParseNum(Lexeme(ts, r))])
                  : c \in { expect(ts, r, "Comma") } })
         ELSE Hold(r, [kind |-> "Exactly", size |-> ParseNum(Lexeme(ts, r))])
         : r \in {r0} })

\* Parser::parse_range; the node is the RangeKind
parse_range(ts, r) ==
  expect(ts,
         RangeKind(ts, expect(ts, expect(ts, r, "LeftBrace"), "Integer")),
         "RightBrace")

\* Node::unary(RegexOperator(Range(range)), node)
UnaryRange(range, x) ==
  CASE range.kind = "Exactly" -> Exactly(x, range.size)
    [] range.kind = "AtLeast" -> AtLeast(x, range.min)
    [] range.kind = "Between" -> Between(x, range.min, range.max)

\* Parser::parse_s4, with its loop over the `&` and `|` that follow
RECURSIVE parse_s4(_, _)
RECURSIVE s4_loop(_, _)
parse_s4(ts, r0) ==
  Only({ s4_loop(ts,
           IF Halted(r) THEN r
           ELSE CASE PeekKind(ts, r) = "LeftParen" ->
                       expect(ts, parse_s4(ts, expect(ts, r, "LeftParen")),
                              "RightParen")
                  [] PeekKind(ts, r) = "Identifier" ->
                       Only({ Hold(a, Variable(Lexeme(ts, a)))
                              : a \in { expect(ts, r, "Identifier") } })
                  [] PeekKind(ts, r) = "Not" ->
                       Only({ Hold(child, Unary(Op("S4", "Complement"),
                                                child.node[1]))
                              : child \in { parse_s4(ts, expect(ts, r, "Not")) } })
                  [] PeekKind(ts, r) = "LeftBracket" -> parse_class(ts, r)
                  [] OTHER -> error(ts, r))
         : r \in {r0} })

s4_loop(ts, r0) ==
  Only({ IF Halted(r) \/ PeekKind(ts, r) \notin {"And", "Or"} THEN r
         ELSE Only({ s4_loop(ts,
                       Hold(right,
                            Binary(Op("S4", IF PeekKind(ts, r) = "And"
                                            THEN "Intersection" ELSE "Union"),
                                   r.node[1], right.node[1])))
                     : right \in { parse_s4(ts, expect(ts, r, PeekKind(ts, r))) } })
         : r \in {r0} })

\* the operator of a token of an arithmetic chain
S4mOperator(k) ==
  Op("S4m", CASE k = "Plus" -> "Addition"
              [] k = "Minus" -> "Subtraction"
              [] k = "Star" -> "Multiplication"
              [] k = "Slash" -> "Division")

\* Parser::parse_s4m, with its loop over the `+ - * /` that follow
RECURSIVE parse_s4m(_, _)
RECURSIVE s4m_loop(_, _)
parse_s4m(ts, r0) ==
  Only({ s4m_loop(ts,
           IF Halted(r) THEN r
           ELSE CASE PeekKind(ts, r) = "LeftParen" ->
                       expect(ts, parse_s4m(ts, expect(ts, r, "LeftParen")),
                              "RightParen")
                  [] PeekKind(ts, r) = "At" ->
                       Only({ Only({ IF Halted(child) THEN child
                                     ELSE IF PeekKind(ts, child) = "Comma" THEN
                                       Only({ expect(ts,
                                                Hold(right,
                                                     Binary(Function(Lexeme(ts, name)),
                                                            child.node[1],
                                                            right.node[1])),
                                                "RightParen")
                                              : right \in { parse_s4(ts,
                                                    expect(ts, child, "Comma")) } })
                                     ELSE expect(ts,
                                            Hold(child,
                                                 Unary(Function(Lexeme(ts, name)),
                                                       child.node[1])),
                                            "RightParen")
                                     : child \in { parse_s4(ts,
                                           expect(ts, name, "LeftParen")) } })
                              : name \in { expect(ts, expect(ts, r, "At"),
                                                  "Identifier") } })
                  [] PeekKind(ts, r) \in {"Real", "Integer"} ->
                       Only({ Hold(number, Number(ParseNum(Lexeme(ts, number))))
                              : number \in { expect(ts, r, PeekKind(ts, r)) } })
                  [] PeekKind(ts, r) = "Minus" ->
                       Only({ Hold(child, Unary(Op("S4m", "Inverse"),
                                                child.node[1]))
                              : child \in { parse_s4m(ts, expect(ts, r, "Minus")) } })
                  [] OTHER -> error(ts, r))
         : r \in {r0} })

s4m_loop(ts, r0) ==
  Only({ IF Halted(r) \/ PeekKind(ts, r) \notin {"Plus", "Minus", "Star", "Slash"}
         THEN r
         ELSE Only({ s4m_loop(ts,
                       Hold(rhs, Binary(S4mOperator(PeekKind(ts, r)),
                                        r.node[1], rhs.node[1])))
                     : rhs \in { parse_s4m(ts, expect(ts, r, PeekKind(ts, r))) } })
         : r \in {r0} })

\* Parser::parse_bindings; the node is the table, and a name bound again by
\* the bindings that follow takes their class (HashMap::extend)
RECURSIVE parse_bindings(_, _)
parse_bindings(ts, r0) ==
  Only({ Only({ IF Halted(class) THEN class
                ELSE IF PeekKind(ts, class) = "Comma" THEN
                  Only({ Hold(rest, rest.node[1]
                                      @@ (Lexeme(ts, variable) :> class.node[1]))
                         : rest \in { parse_bindings(ts,
                               expect(ts, class, "Comma")) } })
                ELSE Hold(class, Lexeme(ts, variable) :> class.node[1])
                : class \in { parse_class(ts, expect(ts, variable, "Walrus")) } })
         : variable \in { expect(ts, r0, "Identifier") } })

\* the operator of a comparison token
Comparison(k) ==
  Op("FOL", CASE k = "LeftChevron" -> "LessThan"
              [] k = "RightChevron" -> "GreaterThan"
              [] k = "LeftChevronEqual" -> "LessThanEqualTo"
              [] k = "RightChevronEqual" -> "GreaterThanEqualTo")

\* Parser::parse_s4u, with its loop over the `&` and `|` that follow
RECURSIVE parse_s4u(_, _)
RECURSIVE s4u_loop(_, _)
parse_s4u(ts, r0) ==
  Only({ s4u_loop(ts,
           IF Halted(r) THEN r
           ELSE CASE PeekKind(ts, r) = "LeftParen" ->
                       expect(ts, parse_s4u(ts, expect(ts, r, "LeftParen")),
                              "RightParen")
                  [] PeekKind(ts, r) = "Not" ->
                       Only({ Hold(child, Unary(Op("FOL", "Negation"),
                                                child.node[1]))
                              : child \in { parse_s4u(ts, expect(ts, r, "Not")) } })
                  [] PeekKind(ts, r) = "NonEmpty" ->
                       Only({ Only({ Hold(child, Unary(Op("S4u", "NonEmpty"),
                                                       child.node[1]))
                                     : child \in {
                                         CASE PeekKind(ts, a) = "LeftBracket" ->
                                                parse_class(ts, a)
                                           [] PeekKind(ts, a) = "LeftParen" ->
                                                expect(ts,
                                                  parse_s4(ts,
                                                    expect(ts, a, "LeftParen")),
                                                  "RightParen")
                                           [] OTHER -> error(ts, a) } })
                              : a \in { expect(ts, r, "NonEmpty") } })
                  [] PeekKind(ts, r) \in {"Exists", "Forall"} ->
                       Only({ Only({ Hold(child,
                                       Unary(IF PeekKind(ts, r) = "Exists"
                                             THEN Exists(table.node[1])
                                             ELSE Forall(table.node[1]),
                                             child.node[1]))
                                     : child \in { parse_s4u(ts,
                                           expect(ts, table, "RightParen")) } })
                              : table \in { parse_bindings(ts,
                                    expect(ts, expect(ts, r, PeekKind(ts, r)),
                                           "LeftParen")) } })
                  [] PeekKind(ts, r) \in {"At", "Integer", "Real", "Minus"} ->
                       Only({ Only({ Hold(rhs, Binary(Comparison(PeekKind(ts, lhs)),
                                                      lhs.node[1], rhs.node[1]))
                                     : rhs \in { parse_s4m(ts,
                                         IF Halted(lhs) THEN lhs
                                         ELSE IF PeekKind(ts, lhs)
                                                   \in {"LeftChevron", "RightChevron",
                                                        "LeftChevronEqual",
                                                        "RightChevronEqual"}
                                           THEN expect(ts, lhs, PeekKind(ts, lhs))
                                         ELSE error(ts, lhs)) } })
                              : lhs \in { parse_s4m(ts, r) } })
                  [] PeekKind(ts, r) = "LeftBracket" -> parse_class(ts, r)
                  [] OTHER -> error(ts, r))
         : r \in {r0} })

s4u_loop(ts, r0) ==
  Only({ IF Halted(r) \/ PeekKind(ts, r) \notin {"And", "Or"} THEN r
         ELSE Only({ s4u_loop(ts,
                       Hold(right,
                            Binary(Op("FOL", IF PeekKind(ts, r) = "And"
                                             THEN "Conjunction" ELSE "Disjunction"),
                                   r.node[1], right.node[1])))
                     : right \in { parse_s4u(ts, expect(ts, r, PeekKind(ts, r))) } })
         : r \in {r0} })

\* Parser::parse_spre, with its loop over the postfixes that follow
RECURSIVE parse_spre(_, _)
RECURSIVE spre_loop(_, _)
parse_spre(ts, r0) ==
  Only({ spre_loop(ts,
           IF Halted(r) THEN r
           ELSE CASE PeekKind(ts, r) = "LeftParen" ->
                       expect(ts, parse_spre(ts, expect(ts, r, "LeftParen")),
                              "RightParen")
                  [] PeekKind(ts, r) = "LeftBracket" ->
                       Only({ Hold(tree, NodeFrom(tree.node[1]))
                              : tree \in { expect(ts,
                                    parse_s4u(ts, expect(ts, r, "LeftBracket")),
                                    "RightBracket") } })
                  [] OTHER -> error(ts, r))
         : r \in {r0} })

spre_loop(ts, r0) ==
  Only({ IF Halted(r) THEN r
         ELSE CASE PeekKind(ts, r) = "Star" ->
                     spre_loop(ts, Hold(expect(ts, r, "Star"),
                                        KleeneStar(r.node[1])))
                [] PeekKind(ts, r) \in {"LeftParen", "LeftBracket"} ->
                     Only({ spre_loop(ts, Hold(right,
                                            Concatenation(r.node[1], right.node[1])))
                            : right \in { parse_spre(ts, r) } })
                [] PeekKind(ts, r) = "Or" ->
                     Only({ spre_loop(ts, Hold(right,
                                            Alternation(r.node[1], right.node[1])))
                            : right \in { parse_spre(ts, expect(ts, r, "Or")) } })
                [] PeekKind(ts, r) = "LeftBrace" ->
                     Only({ spre_loop(ts, Hold(range,
                                            UnaryRange(range.node[1], r.node[1])))
                            : range \in { parse_range(ts, r) } })
                [] OTHER -> r
         : r \in {r0} })

\* Parser::parse: the root (in node) after the final expect(EndOfFile)
ParserParse(ts) ==
  expect(ts,
         IF PeekKind(ts, [cur |-> 0, node |-> None, exit |-> None])
              \notin {"None", "EndOfFile"}
         THEN parse_spre(ts, [cur |-> 0, node |-> None, exit |-> None])
         ELSE [cur |-> 0, node |-> None, exit |-> None],
         "EndOfFile")

(***************************************************************************)
(* One Parser::parse call on a token buffer, with or without a listener    *)
(* attached.  The buffers are what a lexer hands over for patterns put     *)
(* together from a few pieces, well-formed or not; a position is line 1    *)
(* and the place of the token in the buffer.                               *)
(***************************************************************************)
\* the largest number of pieces of a pattern at SpRE level
MaxPieces == 4
\* the largest number of operands of a chain of binary operators
MaxOperands == 3

Punct(kind) == <<Token(kind, "")>>
Class(name) ==
  <<Token("LeftBracket", ""), Token("Colon", ""), Token("Identifier", name),
    Token("Colon", ""), Token("RightBracket", "")>>
Letter(name) == Punct("LeftBracket") \o Class(name) \o Punct("RightBracket")
Integer(n) == <<Token("Integer", FormatNum(n))>>

\* the buffer of a pattern: its tokens with their positions, then EndOfFile
TokenStream(toks) ==
  [i \in 1..(Len(toks) + 1) |->
     IF i <= Len(toks)
     THEN [kind |-> toks[i].kind, lexeme |-> toks[i].lexeme, position |-> <<1, i>>]
     ELSE [kind |-> "EndOfFile", lexeme |-> "", position |-> <<1, i>>]]

RECURSIVE Concat(_)
Concat(seqs) == IF seqs = <<>> THEN <<>> ELSE Head(seqs) \o Concat(Tail(seqs))

\* the pieces at SpRE level:  [[:a:]]  [[:b:]]  [[:c:]]  *  |  (  )  {2}
\* and a letter whose closing bracket is missing
SprePieces ==
  { Letter("a"), Letter("b"), Letter("c"), Punct("Star"), Punct("Or"),
    Punct("LeftParen"), Punct("RightParen"),
    Punct("LeftBrace") \o Integer(2) \o Punct("RightBrace"),
    Punct("LeftBracket") \o Class("a") }

SprePatterns ==
  UNION { { Concat(ps) : ps \in [1..n -> SprePieces] } : n \in 0..MaxPieces }

\* the operands of a chain, in the order they are written
OperandNames == <<"a", "b", "c", "d">>

\* x1 op1 x2 op2 .. xn, for the operator tokens ops and the operand tokens xs
Chain(xs, ops) ==
  Concat([i \in 1..(2 * Len(xs) - 1) |->
            IF i % 2 = 1 THEN xs[(i + 1) \div 2] ELSE Punct(ops[i \div 2])])

ChainOps(kinds) ==
  UNION { [1..(n - 1) -> kinds] : n \in 2..MaxOperands }

\* [ [:a:] op1 [:b:] op2 [:c:] ]
S4uChain(ops) ==
  Punct("LeftBracket")
    \o Chain([i \in 1..(Len(ops) + 1) |-> Class(OperandNames[i])], ops)
    \o Punct("RightBracket")

\* [ 1 op1 2 op2 3 < 0 ]
S4mChain(ops) ==
  Punct("LeftBracket")
    \o Chain([i \in 1..(Len(ops) + 1) |-> Integer(i)], ops)
    \o Punct("LeftChevron") \o Integer(0) \o Punct("RightBracket")

\* [E(a := [:a:], b := [:b:]) @dist(a, b) < 5]   [NonEmpty([:a:] & [:b:])]
\* [A(a := [:a:]) ~(@x(a) >= 2) | NonEmpty [:b:]]   [[:a:]]{1,}   [[:a:]]{1,2}
\* [-1 <= 2 & 3 > (1)]   [NonEmpty(!a | (b))]   [E(a := [:a:], a := [:b:]) [:c:]]
\* [[:a:]]{1,1.5}
SamplePatterns ==
  { Letter("a") \o Punct("LeftBrace") \o Integer(1) \o Punct("Comma")
      \o <<Token("Real", "1.5")>> \o Punct("RightBrace"),
    Punct("LeftBracket") \o Punct("Exists") \o Punct("LeftParen")
      \o <<Token("Identifier", "a")>> \o Punct("Walrus") \o Class("a")
      \o Punct("Comma")
      \o <<Token("Identifier", "b")>> \o Punct("Walrus") \o Class("b")
      \o Punct("RightParen")
      \o Punct("At") \o <<Token("Identifier", "dist")>> \o Punct("LeftParen")
      \o <<Token("Identifier", "a")>> \o Punct("Comma")
      \o <<Token("Identifier", "b")>> \o Punct("RightParen")
      \o Punct("LeftChevron") \o Integer(5) \o Punct("RightBracket"),
    Punct("LeftBracket") \o Punct("NonEmpty") \o Punct("LeftParen")
      \o Class("a") \o Punct("And") \o Class("b") \o Punct("RightParen")
      \o Punct("RightBracket"),
    Punct("LeftBracket") \o Punct("Forall") \o Punct("LeftParen")
      \o <<Token("Identifier", "a")>> \o Punct("Walrus") \o Class("a")
      \o Punct("RightParen")
      \o Punct("Not") \o Punct("LeftParen")
      \o Punct("At") \o <<Token("Identifier", "x")>> \o Punct("LeftParen")
      \o <<Token("Identifier", "a")>> \o Punct("RightParen")
      \o Punct("RightChevronEqual") \o Integer(2) \o Punct("RightParen")
      \o Punct("Or") \o Punct("NonEmpty") \o Class("b")
      \o Punct("RightBracket"),
    Letter("a") \o Punct("LeftBrace") \o Integer(1) \o Punct("Comma")
      \o Punct("RightBrace"),
    Letter("a") \o Punct("LeftBrace") \o Integer(1) \o Punct("Comma")
      \o Integer(2) \o Punct("RightBrace"),
    Punct("LeftBracket") \o Punct("Minus") \o Integer(1)
      \o Punct("LeftChevronEqual") \o Integer(2) \o Punct("And")
      \o Integer(3) \o Punct("RightChevron")
      \o Punct("LeftParen") \o Integer(1) \o Punct("RightParen")
      \o Punct("RightBracket"),
    Punct("LeftBracket") \o Punct("NonEmpty") \o Punct("LeftParen")
      \o Punct("Not") \o <<Token("Identifier", "a")>> \o Punct("Or")
      \o Punct("LeftParen") \o <<Token("Identifier", "b")>>
      \o Punct("RightParen") \o Punct("RightParen") \o Punct("RightBracket"),
    Punct("LeftBracket") \o Punct("Exists") \o Punct("LeftParen")
      \o <<Token("Identifier", "a")>> \o Punct("Walrus") \o Class("a")
      \o Punct("Comma")
      \o <<Token("Identifier", "a")>> \o Punct("Walrus") \o Class("b")
      \o Punct("RightParen") \o Class("c") \o Punct("RightBracket") }

ParserPatterns ==
  SprePatterns
    \cup { S4uChain(ops) : ops \in ChainOps({"And", "Or"}) }
    \cup { S4mChain(ops) : ops \in ChainOps({"Plus", "Minus", "Star", "Slash"}) }
    \cup SamplePatterns

InitParser ==
  /\ DriverIdle
  /\ AppIdle
  /\ MonitorIdle
  /\ ImporterIdle
  /\ tokens \in { TokenStream(p) : p \in ParserPatterns }
  /\ listener \in BOOLEAN
  /\ ast = None
  /\ exit = None
  /\ ppc = "parse"

\* Parser::parse returns AbstractSyntaxTree::new(root)
ParseReturn ==
  /\ ppc = "parse"
  /\ ~Halted(ParserParse(tokens))
  /\ ast' = ParserParse(tokens).node
  /\ ppc' = "returned"
  /\ UNCHANGED <<drvVars, appVars, monVars, impVars, tokens, listener, exit>>

\* expect or error hands the failure to the listener, which ends the process
ParseExit ==
  /\ ppc = "parse"
  /\ Halted(ParserParse(tokens))
  /\ listener
  /\ exit' = ParserParse(tokens).exit
  /\ ppc' = "exited"
  /\ UNCHANGED <<drvVars, appVars, monVars, impVars, tokens, listener, ast>>

\* expect or error without a listener: panic!()
ParsePanic ==
  /\ ppc = "parse"
  /\ Halted(ParserParse(tokens))
  /\ ~listener
  /\ ppc' = "panicked"
  /\ UNCHANGED <<drvVars, appVars, monVars, impVars, tokens, listener, ast, exit>>

NextParser == ParseReturn \/ ParseExit \/ ParsePanic

SpecParser == InitParser /\ [][NextParser]_vars

(***************************************************************************)
(* Properties of the drivers.                                              *)
(***************************************************************************)
Intervals(q) == { q[i] : i \in 1..Len(q) }

\* C1: for a pattern with a finite horizon and no limit, the set of intervals
\* the online driver passes to the callback equals the set the offline driver
\* passes on the same frames.
C1_OnlineEqualsOffline ==
  (pc = "online_done" /\ limit = None /\ horizon(pattern) # None)
    => Intervals(emitted.online) = Intervals(emitted.offline)

\* C2: when horizon(ast) = Some(H), every match the offline driver emits
\* spans at most H frames.
C2_HorizonBoundsOfflineMatches ==
  horizon(pattern) # None =>
    \A i \in 1..Len(emitted.offline) :
      emitted.offline[i].end - emitted.offline[i].start <= horizon(pattern)[1]

C4_StartsNonDecreasing ==
  \A d \in {"offline", "online"} :
    \A i \in 1..Len(emitted[d]) : \A j \in 1..Len(emitted[d]) :
      i < j => emitted[d][i].start <= emitted[d][j].start

\* C5: with a limit N configured, each driver invokes the callback at most N
\* times over the whole run of one stream; with N = 0 it never invokes it.
C5_LimitBoundsCallbacks ==
  limit # None =>
    /\ Len(emitted.offline) <= limit[1]
    /\ Len(emitted.online) <= limit[1]

\* a run over two JSON values in which both drivers found more matches than
\* the limit of one, and each invoked the callback once
C5_Witness ==
  /\ pc = "online_done"
  /\ limit = Some(1)
  /\ Len(stream) = 2
  /\ count > 1
  /\ Len(emitted.offline) = 1
  /\ Len(emitted.online) = 1

\* C6: the online driver never passes the same interval to the callback twice
\* in one run.
C6_OnlineEmitsOnce ==
  \A i \in 1..Len(emitted.online) : \A j \in 1..Len(emitted.online) :
    i < j => emitted.online[i] # emitted.online[j]

\* the frames fr[s..e) belong to the language of the pattern: some word of
\* the language has one symbol per frame, each satisfied by its frame
FramesInLanguage(fr, s, e) ==
  \E w \in [1..(e - s) -> SatKindsSymbols] :
    /\ \A i \in 1..(e - s) : w[i] \in fr[s + i].sat
    /\ InLanguage(regexify(pattern), w)

\* m is the leftmost-greedy match of the frames fr from offset o on
LeftmostGreedy(fr, o, m) ==
  /\ FramesInLanguage(fr, m.start, m.end)
  /\ \A s \in o..(m.start - 1) : \A e \in (s + 1)..Len(fr) :
       ~FramesInLanguage(fr, s, e)
  /\ \A e \in (m.end + 1)..Len(fr) : ~FramesInLanguage(fr, m.start, e)

C8_ExitCodes ==
  exitCode # None =>
    /\ exitCode[1] = 0 <=> (failure = "none" /\ appStatus = "MatchFound")
    /\ exitCode[1] = 1 <=> (failure = "none" /\ appStatus = "MatchNotFound")
    /\ failure \in {"expected", "syntax", "open", "import"} => exitCode[1] = 2

\* C8 (amended): the exit code is 0 exactly when a match was found and no
\* error occurred; it is 1 exactly when no error occurred and no match was
\* found or when the parser met an unexpected token; it is 2 on a syntax
\* error of the parser, a file that cannot be opened and an import error.
C8_ExitCodesAmended ==
  exitCode # None =>
    /\ exitCode[1] = 0 <=> (failure = "none" /\ appStatus = "MatchFound")
    /\ exitCode[1] = 1 <=> \/ failure = "none" /\ appStatus = "MatchNotFound"
                           \/ failure = "expected"
    /\ failure \in {"syntax", "open", "import"} => exitCode[1] = 2

\* the parser met an unexpected token on the first path that could be opened
C8_Witness ==
  /\ paths # None
  /\ parse = "expected"
  /\ failure = "expected"
  /\ exitCode = Some(1)

(***************************************************************************)
(* Properties of the monitor.                                              *)
(***************************************************************************)
Range(q) == { q[i] : i \in 1..Len(q) }

IsForall(f) == f.node = "UnaryExpr" /\ f.op.sort = "S4u" /\ f.op.kind = "Forall"

\* the annotation list of each bound variable of a binder
Valuation(f, v) == S4Evaluate(record, None, f.op.t[v])

\* the Cartesian product of the annotation sets of the bound variables: the
\* ways of choosing one annotation for every variable
Tuples(f) ==
  { a \in [DOMAIN f.op.t -> AnnotationPool] :
      \A v \in DOMAIN f.op.t : a[v] \in Range(Valuation(f, v).val) }

\* child is true under the tuple
ChildTrue(f, a) ==
  LET res == S4uEvaluate(record, Some(a), f.child, bindingOrder) IN
  ~res.panic /\ res.val

\* the evaluation of the formula returned true
ReturnedTrue == mpc = "done" /\ verdict = Some(TRUE)
ReturnedFalse == mpc = "done" /\ verdict = Some(FALSE)

\* C9: once a formula A(bindings) child has been evaluated, it returned true
\* exactly when the Cartesian product of the annotation lists of its
\* bindings is non-empty and child is true under every tuple of the product;
\* when some binding has no annotation in the sample it returned false.
C9_ForallSemantics ==
  (mpc # "evaluate" /\ IsForall(spatial[1])) =>
    LET f == spatial[1] IN
    /\ ReturnedTrue <=>
         /\ \A v \in DOMAIN f.op.t : ~Valuation(f, v).panic
         /\ Tuples(f) # {}
         /\ \A a \in Tuples(f) : ChildTrue(f, a)
    /\ ( /\ \A v \in DOMAIN f.op.t : ~Valuation(f, v).panic
         /\ \E v \in DOMAIN f.op.t : Valuation(f, v).val = <<>> )
       => ReturnedFalse

\* a binder over two classes, one of them absent from the sample, whose
\* child holds on every annotation of the other one: it returned false
C9_Witness ==
  /\ ReturnedFalse
  /\ IsForall(spatial[1])
  /\ DOMAIN spatial[1].op.t = {"u", "v"}
  /\ DOMAIN record = {"car"}

IsComparison(f) ==
  /\ f.node = "BinaryExpr"
  /\ f.op.sort = "FOL"
  /\ f.op.kind \in {"LessThan", "GreaterThan", "LessThanEqualTo", "GreaterThanEqualTo"}

\* the scalar sets of the two sides of a comparison
Scalars(g) == Range(S4mEvaluate(record, None, g).val)

\* the relation of a comparison operator
Satisfies(kind, l, r) ==
  \/ kind = "LessThan" /\ l < r
  \/ kind = "GreaterThan" /\ l > r
  \/ kind = "LessThanEqualTo" /\ l <= r
  \/ kind = "GreaterThanEqualTo" /\ l >= r

\* C10: once a comparison has been evaluated, it returned true exactly when
\* some l of the left scalar set and some r of the right scalar set satisfy
\* the relation; it returned false when one of the two scalar sets is empty.
C10_ComparisonExistential ==
  (mpc = "done" /\ IsComparison(spatial[1])) =>
    LET f == spatial[1] IN
    /\ ReturnedTrue <=>
         \E l \in Scalars(f.lhs) : \E r \in Scalars(f.rhs) :
           Satisfies(f.op.kind, l, r)
    /\ (Scalars(f.lhs) = {} \/ Scalars(f.rhs) = {}) => ReturnedFalse

\* a comparison with several scalars on the left, of which only one is in
\* the relation with the right side, and only by equality
C10_Witness ==
  /\ ReturnedTrue
  /\ IsComparison(spatial[1])
  /\ spatial[1].op.kind = "LessThanEqualTo"
  /\ Cardinality(Scalars(spatial[1].lhs)) = 2
  /\ \A l \in Scalars(spatial[1].lhs) : \A r \in Scalars(spatial[1].rhs) : l >= r

\* the sample holds two cars and nothing else, their centers d apart
TwoCarsApart(d) ==
  /\ DOMAIN record = {"car"}
  /\ Len(record["car"]) = 2
  /\ Euclidean(record["car"][1].bbox, record["car"][2].bbox) = d

\* the frame of the sample as the matcher sees it: it emits the symbol of
\* the formula when the formula holds on the sample
SampleFrame == [index |-> 0, sat |-> IF verdict = Some(TRUE) THEN {"a"} ELSE {}]

\* the match of the one-letter pattern on the stream of this one frame
SampleMatch == leftmost(regexify(Some(Operand("a"))), <<SampleFrame>>)

\* C11: for [E(a := [:car:], b := [:car:]) @dist(a, b) < 50] on one frame
\* with exactly two cars, the frame matches as 0..1 when the centers of the
\* cars are 30 apart and no match is found when they are 80 apart.
C11_DistExample ==
  (mpc # "evaluate" /\ spatial = Some(CarsWithin50)) =>
    /\ TwoCarsApart(30) => (mpc = "done" /\ SampleMatch = Some(Match(0, 1)))
    /\ TwoCarsApart(80) => (mpc = "done" /\ SampleMatch = None)

\* the formula is <nonempty>(L & R) for two classes L and R
IsClassIntersection(f) ==
  /\ f.node = "UnaryExpr" /\ f.op = Op("S4u", "NonEmpty")
  /\ f.child.node = "BinaryExpr" /\ f.child.op = Op("S4", "Intersection")
  /\ f.child.lhs.node = "Operand" /\ f.child.lhs.kind = "Symbol"
  /\ f.child.rhs.node = "Operand" /\ f.child.rhs.kind = "Symbol"

\* the annotations of a class in the sample
OfClass(g) == Range(S4Evaluate(record, None, g).val)

\* the open rectangles of two axis-aligned boxes overlap
OpenOverlap(l, r) ==
  /\ l.min.x < r.max.x /\ r.min.x < l.max.x
  /\ l.min.y < r.max.y /\ r.min.y < l.max.y

\* two boxes that share only a part of their border
Touching(l, r) ==
  /\ ~OpenOverlap(l, r)
  /\ l.min.x <= r.max.x /\ r.min.x <= l.max.x
  /\ l.min.y <= r.max.y /\ r.min.y <= l.max.y

\* C12: on axis-aligned boxes, <nonempty>(L & R) returned true exactly when
\* the open rectangles of some annotation of L and some annotation of R
\* overlap (boxes that are disjoint or only touch do not count), and it
\* returned false when L or R has no annotation.
C12_IntersectionOverlap ==
  ( /\ mpc # "evaluate"
    /\ IsClassIntersection(spatial[1])
    /\ \A x \in OfClass(spatial[1].child.lhs) \cup OfClass(spatial[1].child.rhs) :
         x.bbox.kind = "AxisAligned" ) =>
    LET L == OfClass(spatial[1].child.lhs)
        R == OfClass(spatial[1].child.rhs) IN
    /\ ReturnedTrue <=> \E l \in L : \E r \in R : OpenOverlap(l.bbox, r.bbox)
    /\ (L = {} \/ R = {}) => ReturnedFalse
    /\ ReturnedTrue \/ ReturnedFalse

\* a bus and a car whose boxes share an edge: the intersection is empty
C12_Witness ==
  /\ ReturnedFalse
  /\ spatial = Some(NonEmptyIntersection(Bus, Car))
  /\ \E l \in OfClass(Bus) : \E r \in OfClass(Car) :
       /\ l.bbox.kind = "AxisAligned"
       /\ Touching(l.bbox, r.bbox)

\* the annotations the detections hold, whatever their key
Held == UNION { Range(record[key]) : key \in DOMAIN record }

IsSymbol(f) == f.node = "Operand" /\ f.kind = "Symbol"

\* C21: a class [:label:] evaluates to true exactly when the detections hold
\* an annotation with that label; in the detections the importer builds, a
\* label is a key only with a non-empty list of annotations of that label.
C21_SymbolPresence ==
  /\ \A key \in DOMAIN record :
       /\ record[key] # <<>>
       /\ \A x \in Range(record[key]) : x.label = key
  /\ (mpc # "evaluate" /\ IsSymbol(spatial[1])) =>
       /\ ReturnedTrue \/ ReturnedFalse
       /\ ReturnedTrue <=> \E x \in Held : x.label = spatial[1].name

\* cars but no bus in the sample: [:bus:] returned false
C21_Witness ==
  /\ ReturnedFalse
  /\ spatial = Some(Bus)
  /\ \E x \in Held : x.label = "car"
  /\ \A x \in Held : x.label # "bus"

\* an S4 formula with a Complement node; s4 evaluates every operand of a
\* binary node before it looks at the operator
RECURSIVE HasComplement(_)
HasComplement(g) ==
  CASE g.node = "UnaryExpr" -> g.op = Op("S4", "Complement")
    [] g.node = "BinaryExpr" -> HasComplement(g.lhs) \/ HasComplement(g.rhs)
    [] OTHER -> FALSE

\* an S4m term that applies a function s4m does not implement
UnknownFunction(g) ==
  \/ /\ g.node = "UnaryExpr" /\ g.op.kind = "Function"
     /\ g.op.name \notin {"x", "y", "dist", "area"}
  \/ /\ g.node = "BinaryExpr" /\ g.op.kind = "Function"
     /\ g.op.name # "dist"

\* the formula under evaluation needs a feature that is not implemented:
\* <nonempty> of a region with a Complement, <nonempty>(L & R) with an
\* oriented box in L and in R, or a comparison of an unknown function
Unimplemented(f) ==
  \/ /\ f.node = "UnaryExpr" /\ f.op = Op("S4u", "NonEmpty")
     /\ HasComplement(f.child)
  \/ /\ IsClassIntersection(f)
     /\ \E l \in OfClass(f.child.lhs) : \E r \in OfClass(f.child.rhs) :
          l.bbox.kind = "Oriented" /\ r.bbox.kind = "Oriented"
  \/ /\ IsComparison(f)
     /\ UnknownFunction(f.lhs) \/ UnknownFunction(f.rhs)

\* C22: the evaluation of a formula that needs an S4 Complement, the
\* intersection of two oriented boxes or a function that is not x, y, dist
\* or area (unary) or dist (binary) ends in a panic and leaves no verdict.
C22_UnimplementedIsFatal ==
  (mpc # "evaluate" /\ Unimplemented(spatial[1])) =>
    mpc = "panic" /\ verdict = None

\* an oriented bus intersected with itself
C22_Witness ==
  /\ mpc = "panic"
  /\ verdict = None
  /\ spatial = Some(NonEmptyIntersection(Bus, Bus))
  /\ \E x \in OfClass(Bus) : x.bbox.kind = "Oriented"

\* every order in which a map of the variables a, b, u, v can iterate
IterationOrders ==
  { o \in [1..4 -> {"a", "b", "u", "v"}] : \A i, j \in 1..4 : o[i] = o[j] => i = j }

\* C24: the outcome of an evaluation does not depend on the order in which
\* the bindings map of a binder iterates: under every other order the same
\* formula on the same detections returns the same boolean (and reaches a
\* panic exactly when this evaluation did).
C24_OrderIndependent ==
  /\ mpc = "done" =>
       \A o \in IterationOrders :
         S4uEvaluate(record, None, spatial[1], o) = Ok(verdict[1])
  /\ mpc = "panic" =>
       \A o \in IterationOrders : S4uEvaluate(record, None, spatial[1], o).panic

\* two cars side by side under E(a, b) @x(a) < @x(b), the map iterating b
\* before a: the tuples come in another order, the verdict is true
C24_Witness ==
  /\ ReturnedTrue
  /\ spatial = Some(Unary(Exists([a |-> Car, b |-> Car]),
                          Compare("LessThan", X(Variable("a")), X(Variable("b")))))
  /\ bindingOrder = <<"v", "u", "b", "a">>
  /\ Cardinality(OfClass(Car)) = 2

(***************************************************************************)
(* Properties of the importer.                                             *)
(***************************************************************************)
\* the channels of the samples of the imported frames
ImportedChannels(fs) ==
  UNION { { fs[k].samples[i].channel : i \in 1..Len(fs[k].samples) } :
          k \in 1..Len(fs) }

\* the channels of the samples of the JSON values of a stream
StreamChannels(values) ==
  UNION { ImportedChannels(values[v].frames) : v \in 1..Len(values) }

\* C13: with a channel allowlist, two streams that differ only in samples on
\* channels outside the allowlist are imported to the same frames (and leave
\* the same skip count), and no imported sample is on a channel outside the
\* allowlist.
C13_ChannelNoninterference ==
  channels # None =>
    /\ imported = twinImported
    /\ importerCount = twinCount
    /\ ImportedChannels(imported) \subseteq channels[1]

\* two different streams, one of them with a sample on a channel outside
\* the allowlist, have been imported to the same non-empty frames
C13_Witness ==
  /\ ipc = "loaded"
  /\ channels = Some({"front"})
  /\ ioStream # twinStream
  /\ "rear" \in StreamChannels(ioStream)
  /\ "front" \in ImportedChannels(imported)

\* the frames of the JSON values requested so far that carry the right
\* version, in the order of the stream
RECURSIVE Received(_, _)
Received(values, n) ==
  IF n = 0 THEN <<>>
  ELSE Received(values, n - 1)
         \o (IF values[n].version = CARGO_PKG_VERSION THEN values[n].frames
             ELSE <<>>)

Indices(fs) == [k \in 1..Len(fs) |-> fs[k].index]

\* the number of frames to drop
SkipLimit == IF skip = None THEN 0 ELSE skip[1]

\* C14: with skip = N the importer has dropped the first min(N, total) of
\* the frames received so far, counted across the JSON values and whatever
\* the channel filter is, and has imported every later frame in the order
\* of the stream; its counter is min(N, total), never more than N.
C14_SkipDropsFirstFrames ==
  LET recv == Indices(Received(ioStream, icursor))
      dropped == Min(SkipLimit, Len(recv)) IN
  /\ Indices(imported) = SubSeq(recv, dropped + 1, Len(recv))
  /\ importerCount = dropped
  /\ importerCount <= SkipLimit

\* a stream of two JSON values of one frame each, the first frame without
\* any sample on an allowed channel, read with skip = 1: the first frame was
\* dropped, the second one imported
C14_Witness ==
  /\ ipc = "loaded"
  /\ skip = Some(1)
  /\ channels # None
  /\ Len(ioStream) = 2
  /\ Len(ioStream[1].frames) = 1
  /\ ImportedChannels(ioStream[1].frames) = {"rear"}
  /\ Indices(imported) = <<1>>
  /\ importerCount = 1

\* C15: importing a JSON value of another version returns an error: no
\* frame of the value is imported, the skip counter keeps its value and the
\* driver returns the error.
C15_VersionMismatch ==
  [][(ipc = "request" /\ icursor < Len(ioStream)
        /\ ioStream[icursor + 1].version # CARGO_PKG_VERSION)
       => (ipc' = "error" /\ imported' = imported
             /\ importerCount' = importerCount)]_vars

\* the second JSON value of a stream carried another version and a frame,
\* after a first value whose frame was dropped by skip = 2
C15_Witness ==
  /\ ipc = "error"
  /\ icursor = 2
  /\ ioStream[2].version # CARGO_PKG_VERSION
  /\ Len(ioStream[2].frames) = 1
  /\ skip = Some(2)
  /\ importerCount = 1
  /\ imported = <<>>

(***************************************************************************)
(* Properties of the horizon.                                              *)
(***************************************************************************)
\* the AST holds a KleeneStar or a Range(AtLeast) node
RECURSIVE Unbounded(_)
Unbounded(x) ==
  CASE x.node = "Operand" -> FALSE
    [] x.node = "UnaryExpr" -> x.op \in {"KleeneStar", "AtLeast"} \/ Unbounded(x.child)
    [] x.node = "BinaryExpr" -> Unbounded(x.lhs) \/ Unbounded(x.rhs)

\* the horizon of a bounded AST by the rules: a leaf is 1, Exactly n is n
\* times the child, Between(_, m) is m times the child, a concatenation is
\* the sum and an alternation the maximum
RECURSIVE Rules(_)
Rules(x) ==
  CASE x.node = "Operand" -> 1
    [] x.node = "UnaryExpr" /\ x.op = "Exactly" -> x.size * Rules(x.child)
    [] x.node = "UnaryExpr" /\ x.op = "Between" -> x.max * Rules(x.child)
    [] x.node = "BinaryExpr" /\ x.op = "Concatenation" -> Rules(x.lhs) + Rules(x.rhs)
    [] x.node = "BinaryExpr" /\ x.op = "Alternation" ->
         IF Rules(x.lhs) >= Rules(x.rhs) THEN Rules(x.lhs) ELSE Rules(x.rhs)

HasUnbounded(root) == root # None /\ Unbounded(root[1])

\* C16: horizon(ast) is None exactly when the AST holds a
\* KleeneStar or a Range(AtLeast) node, and otherwise Some(h) with h given by
\* the rules.
C16_HorizonRules ==
  pc = "horizon_done" =>
    /\ capacity = None <=> HasUnbounded(pattern)
    /\ capacity # None => capacity = Some(Rules(pattern[1]))

(***************************************************************************)
(* Properties of the online buffer.                                        *)
(***************************************************************************)
Online == pc \in {"online_request", "online_frames", "online_done", "panic"}

\* the frames the online driver has taken from the stream so far: those of
\* the JSON values requested, less the ones still pending
Arrived ==
  LET all == Flatten(SubSeq(stream, 1, cursor)) IN
  SubSeq(all, 1, Len(all) - Len(pending))

LastN(q, n) == SubSeq(q, Len(q) - n + 1, Len(q))

RECURSIVE LeftNested(_, _)
LeftNested(xs, ops) ==
  IF Len(xs) = 1 THEN xs[1]
  ELSE Binary(ops[Len(ops)],
              LeftNested(SubSeq(xs, 1, Len(xs) - 1), SubSeq(ops, 1, Len(ops) - 1)),
              xs[Len(xs)])

FolOf(k) == Op("FOL", IF k = "And" THEN "Conjunction" ELSE "Disjunction")
S4mOf(k) ==
  Op("S4m", CASE k = "Plus" -> "Addition"
              [] k = "Minus" -> "Subtraction"
              [] k = "Star" -> "Multiplication"
              [] k = "Slash" -> "Division")

\* C18: a chain of & and | in a spatial formula, and a chain of + - * / in
\* an arithmetic term, is parsed nested to the left: a op1 b op2 c gives
\* Binary(op2, Binary(op1, a, b), c), and the term 1 - 2 - 3 has the value
\* of (1 - 2) - 3.
C18_ChainsLeftAssociative ==
  ppc = "returned" =>
    /\ \A ops \in ChainOps({"And", "Or"}) :
         tokens = TokenStream(S4uChain(ops)) =>
           ast = Some(NodeFrom(
                   LeftNested([i \in 1..(Len(ops) + 1) |-> Symbol(OperandNames[i])],
                              [i \in 1..Len(ops) |-> FolOf(ops[i])])))
    /\ \A ops \in ChainOps({"Plus", "Minus", "Star", "Slash"}) :
         tokens = TokenStream(S4mChain(ops)) =>
           ast = Some(NodeFrom(
                   Compare("LessThan",
                     LeftNested([i \in 1..(Len(ops) + 1) |-> Number(i)],
                                [i \in 1..Len(ops) |-> S4mOf(ops[i])]),
                     Number(0))))
    /\ tokens = TokenStream(S4mChain(<<"Minus", "Minus">>)) =>
         S4mEvaluate(<<>>, <<>>, ast[1].formula.lhs) = Ok(<<(1 - 2) - 3>>)

LetterA == NodeFrom(Symbol("a"))
LetterB == NodeFrom(Symbol("b"))
LetterC == NodeFrom(Symbol("c"))

\* C19: at SpRE level a postfix applies to the tree built so far and the
\* right operand of a concatenation is one atom:  A B *  is
\* KleeneStar(Concatenation(A, B)),  A B | C  is
\* Alternation(Concatenation(A, B), C),  A B C  is
\* Concatenation(Concatenation(A, B), C).
C19_PostfixesLeftToRight ==
  ppc = "returned" =>
    /\ tokens = TokenStream(Letter("a") \o Letter("b") \o Punct("Star")) =>
         ast = Some(KleeneStar(Concatenation(LetterA, LetterB)))
    /\ tokens = TokenStream(Letter("a") \o Letter("b") \o Punct("Or") \o Letter("c")) =>
         ast = Some(Alternation(Concatenation(LetterA, LetterB), LetterC))
    /\ tokens = TokenStream(Letter("a") \o Letter("b") \o Letter("c")) =>
         ast = Some(Concatenation(Concatenation(LetterA, LetterB), LetterC))

\* the number of tokens of a kind in a buffer
CountKind(ts, kind) == Cardinality({ i \in 1..Len(ts) : ts[i].kind = kind })

\* the listener was handed an expected-but-found message for the token at i
ExpectedAt(i, kind) ==
  /\ exit # None
  /\ exit[1].code = 1
  /\ exit[1].message = [text |-> "expected but found",
                        position |-> tokens[i].position,
                        expected |-> kind,
                        found |-> tokens[i].kind]

\* the listener was handed a syntax error for the token at i
SyntaxErrorAt(i) ==
  /\ exit # None
  /\ exit[1].code = 2
  /\ exit[1].message = [text |-> "syntax error", position |-> tokens[i].position]

\* C20: with a listener attached, a parse that fails ends through the
\* listener and returns no AST: code 1 with "expected X but found Y" and the
\* position of the offending token Y when a token is missing or unexpected,
\* code 2 with "syntax error" and a position when no production starts with
\* the token.
C20_ParserFailures ==
  /\ ppc = "returned" => exit = None
  /\ ppc = "exited" =>
       /\ ast = None
       /\ \E i \in 1..Len(tokens) :
            \/ \E kind \in {"EndOfFile", "RightParen", "RightBracket", "RightBrace",
                            "LeftBracket", "Colon", "Identifier", "Integer"} :
                 kind # tokens[i].kind /\ ExpectedAt(i, kind)
            \/ SyntaxErrorAt(i)
  /\ (listener /\ ppc # "parse") =>
       \* a pattern that starts with a token no SpRE starts with
       /\ tokens[1].kind \notin {"LeftParen", "LeftBracket", "EndOfFile"} =>
            SyntaxErrorAt(1)
       \* parentheses or brackets that do not pair up
       /\ (\/ CountKind(tokens, "LeftParen") # CountKind(tokens, "RightParen")
           \/ CountKind(tokens, "LeftBracket") # CountKind(tokens, "RightBracket")) =>
            ppc = "exited"
       \* [[:a:]   [[:a:]])   [[:a:]]{2   ()   [[:a:]]|
       /\ tokens = TokenStream(Punct("LeftBracket") \o Class("a")) =>
            ExpectedAt(7, "RightBracket")
       /\ tokens = TokenStream(Letter("a") \o Punct("RightParen")) =>
            ExpectedAt(8, "EndOfFile")
       /\ tokens = TokenStream(Punct("LeftParen") \o Punct("RightParen")) =>
            SyntaxErrorAt(2)
       /\ tokens = TokenStream(Letter("a") \o Punct("Or")) =>
            SyntaxErrorAt(9)

\* a closing bracket is missing at the end of the pattern, and the listener
\* has ended the parse
C20_Witness ==
  /\ ppc = "exited"
  /\ ast = None
  /\ tokens = TokenStream(Letter("b") \o Punct("LeftBracket") \o Class("a"))
  /\ ExpectedAt(Len(tokens), "RightBracket")
  /\ tokens[Len(tokens)].kind = "EndOfFile"


\* the buffer of  [[:a:]] range
Ranged(range) == TokenStream(Letter("a") \o Punct("LeftBrace") \o range \o Punct("RightBrace"))

\* C23: {n} is parsed as Exactly(n), {n,} as AtLeast(n) and {n,m} as
\* Between(n, m); with a Real after the comma the parse, run with a listener,
\* completes without a call of the listener and yields AtLeast(n).
C23_RangeForms ==
  (listener /\ ppc # "parse") =>
    /\ tokens = Ranged(Integer(2)) =>
         ppc = "returned" /\ ast = Some(Exactly(LetterA, 2))
    /\ tokens = Ranged(Integer(1) \o Punct("Comma")) =>
         ppc = "returned" /\ ast = Some(AtLeast(LetterA, 1))
    /\ tokens = Ranged(Integer(1) \o Punct("Comma") \o Integer(2)) =>
         ppc = "returned" /\ ast = Some(Between(LetterA, 1, 2))
    /\ tokens = Ranged(Integer(1) \o Punct("Comma") \o <<Token("Real", "1.5")>>) =>
         ppc = "returned" /\ ast = Some(AtLeast(LetterA, 1))

\* the channels of the samples of a frame, in their order
SampleChannels(samples) == [i \in 1..Len(samples) |-> samples[i].channel]

\* C30: the channel filter removes samples, never frames: the importer holds
\* one frame for each frame received after the skipped ones, in the order of
\* the stream and with the index of the input frame, and the samples of each
\* are the allowed samples of the input frame, none included.
C30_FilterKeepsFrames ==
  LET recv == Received(ioStream, icursor)
      kept == SubSeq(recv, Min(SkipLimit, Len(recv)) + 1, Len(recv)) IN
  /\ Len(imported) = Len(kept)
  /\ \A k \in 1..Len(imported) :
       /\ imported[k].index = kept[k].index
       /\ SampleChannels(imported[k].samples)
            = SampleChannels(Allowlisted(channels, kept[k].samples))

\* two frames, the first with one sample on a channel that is not allowed:
\* both were imported, the first one without samples
C30_Witness ==
  /\ ipc = "loaded"
  /\ skip = None
  /\ channels = Some({"front"})
  /\ Len(Received(ioStream, icursor)) = 2
  /\ SampleChannels(Received(ioStream, icursor)[1].samples) = <<"rear">>
  /\ Len(imported) = 2
  /\ imported[1] = [index |-> 0, samples |-> <<>>]
  /\ SampleChannels(imported[2].samples) = <<"front">>

C26_EvictionNeverFails == horizon(pattern) # None => pc # "panic"

\* C27: once the online driver has counted more matches than the limit, it
\* requests no further JSON value and processes no further frame.
C27_LimitEndsOnline ==
  [][(pc \in {"online_request", "online_frames"} /\ OverLimit(count, limit))
       => (cursor' = cursor /\ frames' = frames)]_vars

\* C28: when the offline driver emits a match, the match starts at or after
\* the end of the match emitted before it, and the next search starts
\* exactly at the end of the match just emitted.
C28_OfflineNoOverlap ==
  [][Len(emitted'.offline) = Len(emitted.offline) + 1 =>
       LET m2 == emitted'.offline[Len(emitted'.offline)] IN
       /\ offset' = m2.end
       /\ emitted.offline # <<>> =>
            m2.start >= emitted.offline[Len(emitted.offline)].end]_vars

\* two matches of [:a:] on two frames with a: 0..1, then 1..2 from offset 1
C28_Witness ==
  /\ pc = "offline_search"
  /\ pattern = Some(Operand("a"))
  /\ emitted.offline = <<Match(0, 1), Match(1, 2)>>
  /\ offset = 2

\* the number of frames in the JSON values that precede the failing one
FramesBefore(strm, fail) == Len(Flatten(SubSeq(strm, 1, fail[1] - 1)))

IsPrefix(p, q) == Len(p) <= Len(q) /\ SubSeq(q, 1, Len(p)) = p

\* C29: when the import of a JSON value of the stream fails, the offline
\* driver never invokes the callback; the online driver keeps every match
\* it has emitted and emits none from the failing value on: every emitted
\* match lies within the frames of the values before the failing one.
C29_ImportFailure ==
  [][failing # None =>
       /\ emitted'.offline = <<>>
       /\ IsPrefix(emitted.online, emitted'.online)
       /\ \A i \in 1..Len(emitted'.online) :
            emitted'.online[i].end <= FramesBefore(stream, failing)
       /\ pc' = "online_error" => emitted'.online = emitted.online]_vars

\* [:a:] on the values [F0{a}], [F1{a}], the second failing: offline emitted
\* nothing, online emitted 0..1 before it returned the error
C29_Witness ==
  /\ pc = "online_error"
  /\ pattern = Some(Operand("a"))
  /\ failing = Some(2)
  /\ Len(stream) = 2
  /\ Flatten(stream) = <<[index |-> 0, sat |-> {"a"}], [index |-> 1, sat |-> {"a"}]>>
  /\ emitted = [offline |-> <<>>, online |-> <<Match(0, 1)>>]

====
